---- MODULE Spec2Model ----
(***************************************************************************)
(* Planar face discovery (PlanarFaceTree.discover): a PlanarFaceTree       *)
(* instance with its vertexStore, on which discover(positions, edges) is   *)
(* called.  A vertex record is identified by its index in vertexStore      *)
(* (every record the code creates is pushed there).  A JavaScript Set is a *)
(* sequence without repetitions, in insertion order.  The reference null   *)
(* is NullVertex.                                                          *)
(***************************************************************************)
EXTENDS Integers, Sequences, FiniteSets, TLC

(***************************************************************************)
(* Bounds of the exploration.                                              *)
(***************************************************************************)
\* discover calls made on one instance
MaxCalls == 2
\* longest positions list and longest edges list of the validation family
MaxLen == 2
\* number of points of GridPoints used by the enumerated graph family
NPts == 5
\* the most steps of one call of discover that are followed
MaxSteps == 200

(***************************************************************************)
(* Generic helpers.                                                        *)
(***************************************************************************)
Range(s) == { s[i] : i \in 1..Len(s) }

SeqsUpTo(S, n) == UNION { [1..k -> S] : k \in 0..n }

\* Set.prototype.add / delete / has on an insertion-ordered set
SetHas(s, x) == \E i \in 1..Len(s) : s[i] = x
SetAdd(s, x) == IF SetHas(s, x) THEN s ELSE Append(s, x)
SetDelete(s, x) == SelectSeq(s, LAMBDA y : y # x)

NullVertex == 0

(***************************************************************************)
(* validateInputs.  The keys are the template strings `${a}->${b}`.        *)
(***************************************************************************)
DigitChars == <<"0", "1", "2", "3", "4", "5", "6", "7", "8", "9">>

RECURSIVE NatToString(_)
NatToString(n) ==
    IF n < 10 THEN DigitChars[n + 1]
    ELSE NatToString(n \div 10) \o DigitChars[(n % 10) + 1]

\* Number.prototype.toString for an integer
NumberToString(n) == IF n < 0 THEN "-" \o NatToString(-n) ELSE NatToString(n)

\* a key that does not tell the order of the pair
PairKeyUnordered(pair) ==
    IF pair[1] <= pair[2]
    THEN NumberToString(pair[1]) \o "->" \o NumberToString(pair[2])
    ELSE NumberToString(pair[2]) \o "->" \o NumberToString(pair[1])

PairKey(pair) == NumberToString(pair[1]) \o "->" \o NumberToString(pair[2])

RECURSIVE ScanPositions(_, _, _)
ScanPositions(positions, j, posKeys) ==
    IF j > Len(positions) THEN "OK"
    ELSE LET position == positions[j]
             key == PairKey(position)
         IN  IF key \in posKeys THEN "VERTICES_HAVE_SAME_POSITION"
             ELSE IF position[1] < 0 \/ position[2] < 0
                  THEN "INVALID_COORDINATE_SYSTEM"
                  ELSE ScanPositions(positions, j + 1, posKeys \cup {key})

\* the scan of the edges with the upper bound test off by one
RECURSIVE ScanEdgesInclusive(_, _, _, _)
ScanEdgesInclusive(edges, i, edgeKeys, maxNodeValue) ==
    IF i > Len(edges) THEN "OK"
    ELSE LET edge == edges[i]
             key == PairKey(edge)
         IN  IF key \in edgeKeys THEN "DUPLICATE_EDGE_FOUND"
             ELSE IF \/ edge[1] < 0
                     \/ edge[1] >= maxNodeValue
                     \/ edge[2] < 0
                     \/ edge[2] >= maxNodeValue
                  THEN "EDGE_ENDPOINT_OUT_OF_BOUNDS"
                  ELSE ScanEdgesInclusive(edges, i + 1, edgeKeys \cup {key}, maxNodeValue)

RECURSIVE ScanEdges(_, _, _, _)
ScanEdges(edges, i, edgeKeys, maxNodeValue) ==
    IF i > Len(edges) THEN "OK"
    ELSE LET edge == edges[i]
             key == PairKey(edge)
         IN  IF key \in edgeKeys THEN "DUPLICATE_EDGE_FOUND"
             ELSE IF \/ edge[1] < 0
                     \/ edge[1] > maxNodeValue
                     \/ edge[2] < 0
                     \/ edge[2] > maxNodeValue
                  THEN "EDGE_ENDPOINT_OUT_OF_BOUNDS"
                  ELSE ScanEdges(edges, i + 1, edgeKeys \cup {key}, maxNodeValue)

\* a validation that reports the defects of the edges by the rank of their
\* kind, out of bounds before repeated, wherever they stand in the list
validateInputsEdgesRanked(positions, edges) ==
    IF Len(positions) = 0 \/ Len(edges) = 0 THEN "GRAPH_EMPTY"
    ELSE LET p == ScanPositions(positions, 1, {})
             n == Len(positions) - 1
         IN  IF p # "OK" THEN p
             ELSE IF \E i \in 1..Len(edges) :
                        \/ edges[i][1] < 0 \/ edges[i][1] > n
                        \/ edges[i][2] < 0 \/ edges[i][2] > n
             THEN "EDGE_ENDPOINT_OUT_OF_BOUNDS"
             ELSE IF \E i \in 1..Len(edges) : \E j \in 1..(i - 1) : edges[j] = edges[i]
             THEN "DUPLICATE_EDGE_FOUND"
             ELSE "OK"

\* "OK" stands for the null the code returns when nothing is wrong
validateInputs(positions, edges) ==
    IF Len(positions) = 0 \/ Len(edges) = 0 THEN "GRAPH_EMPTY"
    ELSE LET p == ScanPositions(positions, 1, {})
         IN  IF p # "OK" THEN p
             ELSE ScanEdges(edges, 1, {}, Len(positions) - 1)

(***************************************************************************)
(* Vertex records and the graph operations on the vertexStore.             *)
(***************************************************************************)
\* new Vertex(name, position): visited 0, empty adjacency
Vertex(name, position) ==
    [name |-> name, position |-> position, adjacent |-> <<>>, visited |-> 0]

\* u.adjacent.add(v)
AdjAdd(store, u, v) ==
    [store EXCEPT ![u].adjacent = SetAdd(@, v)]

\* u.adjacent.delete(v)
AdjDelete(store, u, v) ==
    [store EXCEPT ![u].adjacent = SetDelete(@, v)]

AdjSize(store, v) == Len(store[v].adjacent)

\* the names at the ends of the edges, in the order the loops over edges
\* meet them: edge[0] and then edge[1] of every edge
Endpoints(edges) ==
    [i \in 1..(2 * Len(edges)) |-> edges[(i + 1) \div 2][2 - (i % 2)]]

\* the values in the order in which a Set (or the keys of a Map) first has them
InsertionOrder(s) ==
    LET first == SelectSeq([i \in 1..Len(s) |-> i],
                           LAMBDA i : \A j \in 1..(i - 1) : s[j] # s[i])
    IN  [k \in 1..Len(first) |-> s[first[k]]]

\* unique: one record per distinct name, in order of first occurrence in edges
UniqueNames(edges) == InsertionOrder(Endpoints(edges))

\* index in names of the name (unique.get)
IndexOf(names, name) == CHOOSE i \in 1..Len(names) : names[i] = name

\* edges.forEach: iter0.adjacent.add(iter1); iter1.adjacent.add(iter0).
\* The record of a name receives, edge by edge, the record at the other end.
BuildAdjacency(store, edges, names, base) ==
    LET ends == Endpoints(edges)
        other(i) == IF i % 2 = 1 THEN ends[i + 1] ELSE ends[i - 1]
        mine(name) == SelectSeq([i \in 1..Len(ends) |-> i],
                                LAMBDA i : ends[i] = name)
        added(name) == [k \in 1..Len(mine(name)) |->
                           base + IndexOf(names, other(mine(name)[k]))]
    IN  [v \in 1..Len(store) |->
            IF v <= base THEN store[v]
            ELSE [store[v] EXCEPT !.adjacent = InsertionOrder(added(names[v - base]))]]

\* index of the first adjacent record with visited = 0, or 0
FirstUnvisited(store, adjacents) ==
    IF \E i \in 1..Len(adjacents) : store[adjacents[i]].visited = 0
    THEN adjacents[CHOOSE i \in 1..Len(adjacents) :
                      /\ store[adjacents[i]].visited = 0
                      /\ \A j \in 1..(i - 1) : store[adjacents[j]].visited # 0]
    ELSE NullVertex

\* one iteration of the while loop of depthFirstSearch; s holds the
\* vertexStore, the stack of the search and component.value
DfsBody(s) ==
    LET vertex == s.vStack[Len(s.vStack)]
        store1 == [s.store EXCEPT ![vertex].visited = 1]
        next == FirstUnvisited(store1, store1[vertex].adjacent)
    IN  IF next # NullVertex
        THEN [store |-> store1,
              vStack |-> Append(s.vStack, next),
              component |-> s.component]
        ELSE [store |-> [store1 EXCEPT ![vertex].visited = 2],
              vStack |-> SubSeq(s.vStack, 1, Len(s.vStack) - 1),
              component |-> Append(s.component, vertex)]

\* while (vStack.length > 0), at most n iterations.  The iterations are
\* split in two halves so that the evaluation nests to depth log n.
RECURSIVE DfsLoop(_, _)
DfsLoop(s, n) ==
    IF Len(s.vStack) = 0 THEN s
    ELSE IF n <= 1 THEN DfsBody(s)
    ELSE DfsLoop(DfsLoop(s, n \div 2), n - (n \div 2))

\* depthFirstSearch(vInitial, component) with component.value = [].  A record
\* is pushed once and popped once, so 2 * Len(store) iterations suffice.
depthFirstSearch(store, vInitial) ==
    LET s == DfsLoop([store |-> store, vStack |-> <<vInitial>>, component |-> <<>>],
                     2 * Len(store))
    IN  [store |-> s.store, component |-> s.component]

\* vertexStore.forEach: every record still unvisited seeds a component;
\* s holds the vertexStore, the index k of the record and the components
RECURSIVE FindComponents(_)
FindComponents(s) ==
    IF s.k > Len(s.store) THEN [store |-> s.store, components |-> s.components]
    ELSE IF s.store[s.k].visited = 0
         THEN LET r == depthFirstSearch(s.store, s.k)
              IN  FindComponents([store |-> r.store, k |-> s.k + 1,
                                  components |-> Append(s.components, r.component)])
         ELSE FindComponents([s EXCEPT !.k = @ + 1])

ResetVisited(store) == [k \in 1..Len(store) |-> [store[k] EXCEPT !.visited = 0]]

\* the inner while of removeFilaments: walk along the filament deleting edges
RECURSIVE FilamentWalk(_, _)
FilamentWalk(store, vertex) ==
    IF AdjSize(store, vertex) # 1 THEN store
    ELSE LET adjacent == store[vertex].adjacent[1]
         IN  FilamentWalk(AdjDelete(AdjDelete(store, adjacent, vertex), vertex, adjacent),
                          adjacent)

\* endpoints.forEach; s holds the vertexStore and the index k of the endpoint
RECURSIVE PruneEndpoints(_, _)
PruneEndpoints(s, endpoints) ==
    IF s.k > Len(endpoints) THEN s.store
    ELSE PruneEndpoints([store |-> FilamentWalk(s.store, endpoints[s.k]),
                         k |-> s.k + 1], endpoints)

\* component.value without the records whose adjacency is empty
Remaining(store, component) ==
    SelectSeq(component, LAMBDA v : AdjSize(store, v) > 0)

removeFilaments(store, component) ==
    LET endpoints == SelectSeq(component, LAMBDA v : AdjSize(store, v) = 1)
    IN  IF Len(endpoints) > 0
        THEN LET store1 == PruneEndpoints([store |-> store, k |-> 1], endpoints)
             IN  [store |-> store1, component |-> Remaining(store1, component)]
        ELSE [store |-> store, component |-> component]

(***************************************************************************)
(* The planar walker.  A direction is a pair <<dx, dy>>.                   *)
(***************************************************************************)
\* dCurr: the incoming direction, (0,-1) when vPrev is null
IncomingDirection(store, vPrev, vCurr) ==
    IF vPrev # NullVertex
    THEN <<store[vCurr].position[1] - store[vPrev].position[1],
           store[vCurr].position[2] - store[vPrev].position[2]>>
    ELSE <<0, -1>>

Direction(store, from, to) ==
    <<store[to].position[1] - store[from].position[1],
      store[to].position[2] - store[from].position[2]>>

\* one iteration of vCurr.adjacent.forEach in getClockwiseMost;
\* best = [vNext, dNext, vCurrConvex]
ClockwiseStep(store, vPrev, vCurr, dCurr, best, vAdj) ==
    LET dAdj == Direction(store, vCurr, vAdj)
        dNext == best.dNext
    IN  IF vAdj = vPrev THEN best
        ELSE IF best.vNext = NullVertex
        THEN [vNext |-> vAdj, dNext |-> dAdj,
              vCurrConvex |-> (dAdj[1] * dCurr[2] <= dAdj[2] * dCurr[1])]
        ELSE IF best.vCurrConvex
        THEN IF \/ dCurr[1] * dAdj[2] < dCurr[2] * dAdj[1]
                \/ dNext[1] * dAdj[2] < dNext[2] * dAdj[1]
             THEN [vNext |-> vAdj, dNext |-> dAdj,
                   vCurrConvex |-> (dAdj[1] * dCurr[2] <= dAdj[2] * dCurr[1])]
             ELSE best
        ELSE IF /\ dCurr[1] * dAdj[2] < dCurr[2] * dAdj[1]
                /\ dNext[1] * dAdj[2] < dNext[2] * dAdj[1]
             THEN [vNext |-> vAdj, dNext |-> dAdj,
                   vCurrConvex |-> (dAdj[1] * dCurr[2] < dAdj[2] * dCurr[1])]
             ELSE best

\* one iteration of vCurr.adjacent.forEach in getCounterClockwiseMost
CounterClockwiseStep(store, vPrev, vCurr, dCurr, best, vAdj) ==
    LET dAdj == Direction(store, vCurr, vAdj)
        dNext == best.dNext
    IN  IF vAdj = vPrev THEN best
        ELSE IF best.vNext = NullVertex
        THEN [vNext |-> vAdj, dNext |-> dAdj,
              vCurrConvex |-> (dAdj[1] * dCurr[2] <= dAdj[2] * dCurr[1])]
        ELSE IF best.vCurrConvex
        THEN IF /\ dCurr[1] * dAdj[2] > dCurr[2] * dAdj[1]
                /\ dNext[1] * dAdj[2] > dNext[2] * dAdj[1]
             THEN [vNext |-> vAdj, dNext |-> dAdj,
                   vCurrConvex |-> (dAdj[1] * dCurr[2] <= dAdj[2] * dCurr[1])]
             ELSE best
        ELSE IF \/ dCurr[1] * dAdj[2] > dCurr[2] * dAdj[1]
                \/ dNext[1] * dAdj[2] > dNext[2] * dAdj[1]
             THEN [vNext |-> vAdj, dNext |-> dAdj,
                   vCurrConvex |-> (dAdj[1] * dCurr[2] <= dAdj[2] * dCurr[1])]
             ELSE best

NoBest == [vNext |-> NullVertex, dNext |-> <<0, 0>>, vCurrConvex |-> FALSE]

\* vCurr.adjacent.forEach; s holds best and the index k of the neighbour
RECURSIVE ClockwiseScan(_, _, _, _, _)
ClockwiseScan(store, vPrev, vCurr, dCurr, s) ==
    IF s.k > AdjSize(store, vCurr) THEN s.best
    ELSE ClockwiseScan(store, vPrev, vCurr, dCurr,
                       [best |-> ClockwiseStep(store, vPrev, vCurr, dCurr, s.best,
                                               store[vCurr].adjacent[s.k]),
                        k |-> s.k + 1])

RECURSIVE CounterClockwiseScan(_, _, _, _, _)
CounterClockwiseScan(store, vPrev, vCurr, dCurr, s) ==
    IF s.k > AdjSize(store, vCurr) THEN s.best
    ELSE CounterClockwiseScan(store, vPrev, vCurr, dCurr,
                              [best |-> CounterClockwiseStep(store, vPrev, vCurr, dCurr,
                                                             s.best,
                                                             store[vCurr].adjacent[s.k]),
                               k |-> s.k + 1])

\* the record returned, NullVertex when vCurr has no neighbour other than vPrev
getClockwiseMost(store, vPrev, vCurr) ==
    ClockwiseScan(store, vPrev, vCurr, IncomingDirection(store, vPrev, vCurr),
                  [best |-> NoBest, k |-> 1]).vNext

\* the first neighbour of vCurr other than vPrev, in insertion order
getCounterClockwiseMostFirst(store, vPrev, vCurr) ==
    LET others == SelectSeq(store[vCurr].adjacent, LAMBDA vAdj : vAdj # vPrev)
    IN  IF Len(others) = 0 THEN NullVertex ELSE others[1]

getCounterClockwiseMost(store, vPrev, vCurr) ==
    CounterClockwiseScan(store, vPrev, vCurr, IncomingDirection(store, vPrev, vCurr),
                         [best |-> NoBest, k |-> 1]).vNext

\* leftmost record of the component, the lowest of them on equal x;
\* s holds minVertex and the index k of the record of component.value.forEach
RECURSIVE MinVertexScan(_, _, _)
MinVertexScan(store, component, s) ==
    IF s.k > Len(component) THEN s.minVertex
    ELSE LET vertex == component[s.k]
             m1 == IF /\ store[vertex].position[1] = store[s.minVertex].position[1]
                      /\ store[vertex].position[2] < store[s.minVertex].position[2]
                   THEN vertex ELSE s.minVertex
             m2 == IF store[vertex].position[1] < store[m1].position[1]
                   THEN vertex ELSE m1
         IN  MinVertexScan(store, component, [minVertex |-> m2, k |-> s.k + 1])

MinVertex(store, component) ==
    MinVertexScan(store, component, [minVertex |-> component[1], k |-> 1])

(***************************************************************************)
(* The closed walk of extractCycleFromComponent.  The while loop is        *)
(* deterministic in (vCurr, vAdj): when a pair of consecutive records of   *)
(* the walk comes back the loop never ends ("diverge"); a null neighbour   *)
(* is dereferenced by the next call of getCounterClockwiseMost, a          *)
(* TypeError ("throw").                                                    *)
(***************************************************************************)
\* one iteration of while (vAdj !== vStart), and the push after the loop
WalkBody(store, vStart, s) ==
    IF s.vAdj = vStart
    THEN [s EXCEPT !.status = "ok", !.walk = Append(@, vStart)]
    ELSE IF s.vAdj = NullVertex
    THEN [s EXCEPT !.status = "throw", !.walk = Append(@, NullVertex)]
    ELSE IF \E i \in 1..(Len(s.walk) - 1) :
               s.walk[i] = s.vCurr /\ s.walk[i + 1] = s.vAdj
    THEN [s EXCEPT !.status = "diverge"]
    ELSE [status |-> "walking",
          vCurr |-> s.vAdj,
          vAdj |-> getCounterClockwiseMost(store, s.vCurr, s.vAdj),
          walk |-> Append(s.walk, s.vAdj)]

\* at most n iterations, split in two halves
RECURSIVE WalkLoop(_, _, _, _)
WalkLoop(store, vStart, s, n) ==
    IF s.status # "walking" THEN s
    ELSE IF n <= 1 THEN WalkBody(store, vStart, s)
    ELSE WalkLoop(store, vStart, WalkLoop(store, vStart, s, n \div 2), n - (n \div 2))

\* a pair of records is walked once before the walk closes or a pair comes
\* back, so Len(store) * Len(store) + 2 iterations suffice
ClosedWalk(store, minVertex) ==
    WalkLoop(store, minVertex,
             [status |-> "walking",
              vCurr |-> minVertex,
              vAdj |-> getClockwiseMost(store, NullVertex, minVertex),
              walk |-> <<minVertex>>],
             Len(store) * Len(store) + 2)

(***************************************************************************)
(* extractCycleFromClosedWalk: simplification of the walk, wedges, clones. *)
(* Walk indices are the code's, from 0: At(w, i) is closedWalk.value[i].   *)
(***************************************************************************)
At(w, i) == w[i + 1]

\* closedWalk.value.splice(iMin + 1, iMax - iMin)
Splice(w, iMin, iMax) == SubSeq(w, 1, iMin + 1) \o SubSeq(w, iMax + 2, Len(w))

\* the Map duplicates as a sequence of <<vertex, index>>, one per key
MapHas(m, key) == \E k \in 1..Len(m) : m[k][1] = key
MapGet(m, key) == m[CHOOSE k \in 1..Len(m) : m[k][1] = key][2]
MapDelete(m, key) == SelectSeq(m, LAMBDA e : e[1] # key)
MapSet(m, key, value) ==
    IF MapHas(m, key)
    THEN [k \in 1..Len(m) |-> IF m[k][1] = key THEN <<key, value>> ELSE m[k]]
    ELSE Append(m, <<key, value>>)

\* one iteration of the for loop over the closed walk
SimplifyBody(s) ==
    LET w == s.walk
        i == s.i
        v == At(w, i)
        diter == IF MapHas(s.duplicates, v) THEN MapGet(s.duplicates, v) ELSE 0
    IN  IF diter = 0
        THEN [s EXCEPT !.duplicates = MapSet(@, v, i), !.i = i + 1]
        ELSE LET iMin == diter
                 iMax == i
                 inner == { At(w, j) : j \in (iMin + 1)..(iMax - 1) }
             IN  [walk |-> Splice(w, iMin, iMax),
                  i |-> iMin + 1,
                  duplicates |-> SelectSeq(s.duplicates, LAMBDA e : e[1] \notin inner),
                  detachments |-> SelectSeq(SetAdd(s.detachments, iMin),
                                            LAMBDA j : ~(iMin < j /\ j < iMax))]

\* for (i = 1; i < numClosedWalk - 1; ++i), at most n iterations, split in
\* two halves
RECURSIVE SimplifyLoop(_, _)
SimplifyLoop(s, n) ==
    IF ~(s.i < Len(s.walk) - 1) THEN s
    ELSE IF n <= 1 THEN SimplifyBody(s)
    ELSE SimplifyLoop(SimplifyLoop(s, n \div 2), n - (n \div 2))

\* a closed walk handed on without simplification
SimplifyNothing(w) == [walk |-> w, detachments |-> <<>>]

\* every iteration brings i one closer to the end of the walk, so Len(w)
\* iterations suffice
Simplify(w) ==
    LET s == SimplifyLoop([walk |-> w, i |-> 1, duplicates |-> <<>>,
                           detachments |-> <<>>], Len(w))
    IN  [walk |-> s.walk, detachments |-> s.detachments]

\* the records adjacent to closedWalk.value[i] that lie outside the wedge at i
InWedgeOutside(store, w, i) ==
    LET original == At(w, i)
        maxVertex == At(w, i + 1)
        minVertex == IF i > 0 THEN At(w, i - 1) ELSE At(w, Len(w) - 2)
        dMin == Direction(store, original, minVertex)
        dMax == Direction(store, original, maxVertex)
        isConvex == dMax[1] * dMin[2] >= dMax[2] * dMin[1]
        Outside(vertex) ==
            LET dVer == Direction(store, original, vertex)
            IN  /\ store[vertex].name # store[minVertex].name
                /\ store[vertex].name # store[maxVertex].name
                /\ ~IF isConvex
                    THEN /\ dVer[1] * dMin[2] > dVer[2] * dMin[1]
                         /\ dVer[1] * dMax[2] < dVer[2] * dMax[1]
                    ELSE \/ dVer[1] * dMin[2] > dVer[2] * dMin[1]
                         \/ dVer[1] * dMax[2] < dVer[2] * dMax[1]
    IN  SelectSeq(store[original].adjacent, Outside)

\* the records adjacent to closedWalk.value[i] that lie in the wedge at i
InWedge(store, w, i) ==
    LET original == At(w, i)
        maxVertex == At(w, i + 1)
        minVertex == IF i > 0 THEN At(w, i - 1) ELSE At(w, Len(w) - 2)
        dMin == Direction(store, original, minVertex)
        dMax == Direction(store, original, maxVertex)
        isConvex == dMax[1] * dMin[2] >= dMax[2] * dMin[1]
        Contains(vertex) ==
            LET dVer == Direction(store, original, vertex)
            IN  /\ store[vertex].name # store[minVertex].name
                /\ store[vertex].name # store[maxVertex].name
                /\ IF isConvex
                   THEN /\ dVer[1] * dMin[2] > dVer[2] * dMin[1]
                        /\ dVer[1] * dMax[2] < dVer[2] * dMax[1]
                   ELSE \/ dVer[1] * dMin[2] > dVer[2] * dMin[1]
                        \/ dVer[1] * dMax[2] < dVer[2] * dMax[1]
    IN  SelectSeq(store[original].adjacent, Contains)

\* copies the edges original-vertex, vertex in moved, to the clone and
\* leaves them at the original too
RECURSIVE TransferEdgesCopying(_, _, _, _)
TransferEdgesCopying(s, original, clone, moved) ==
    IF s.k > Len(moved) THEN s.store
    ELSE LET vertex == moved[s.k]
             s3 == AdjAdd(s.store, clone, vertex)
             s4 == AdjAdd(s3, vertex, clone)
         IN  TransferEdgesCopying([store |-> s4, k |-> s.k + 1], original, clone, moved)

\* moves the edges original-vertex, vertex in moved, to the clone;
\* s holds the vertexStore and the index k of the record in moved
RECURSIVE TransferEdges(_, _, _, _)
TransferEdges(s, original, clone, moved) ==
    IF s.k > Len(moved) THEN s.store
    ELSE LET vertex == moved[s.k]
             s1 == AdjDelete(s.store, original, vertex)
             s2 == AdjDelete(s1, vertex, original)
             s3 == AdjAdd(s2, clone, vertex)
             s4 == AdjAdd(s3, vertex, clone)
         IN  TransferEdges([store |-> s4, k |-> s.k + 1], original, clone, moved)

\* new Vertex(original.name, [...original.position]) pushed on the vertexStore,
\* the edges to the records of moved transferred to it, and the search from it
DetachClone(store, original, moved) ==
    LET clone == Len(store) + 1
        store1 == Append(store, Vertex(store[original].name, store[original].position))
        store2 == TransferEdges([store |-> store1, k |-> 1], original, clone, moved)
    IN  depthFirstSearch(store2, clone)

(***************************************************************************)
(* extractCycle: the names of the walk, and the unwinding of its edges.    *)
(***************************************************************************)
RECURSIVE Unwind(_, _, _)
Unwind(store, v, vBranch) ==
    IF v # vBranch /\ AdjSize(store, v) = 1
    THEN LET adj == store[v].adjacent[1]
         IN  Unwind(AdjDelete(AdjDelete(store, v, adj), adj, v), adj, vBranch)
    ELSE [store |-> store, v |-> v]

\* extractCycle without the closing name of the walk
extractCycleOpen(store, w) ==
    LET cycle == [i \in 1..(Len(w) - 1) |-> store[w[i]].name]
        v0 == At(w, 0)
        v1 == At(w, 1)
        vBranch == IF AdjSize(store, v0) > 2 THEN v0 ELSE NullVertex
        store1 == AdjDelete(AdjDelete(store, v0, v1), v1, v0)
        fwd == Unwind(store1, v1, vBranch)
        bwd == IF fwd.v # v0 THEN Unwind(fwd.store, v0, fwd.v) ELSE fwd
    IN  [store |-> bwd.store, cycle |-> cycle]

\* extractCycle without the name of the second record of the walk
extractCycleSkipping(store, w) ==
    LET cycle == [i \in 1..(Len(w) - 1) |-> store[w[IF i = 1 THEN 1 ELSE i + 1]].name]
        v0 == At(w, 0)
        v1 == At(w, 1)
        vBranch == IF AdjSize(store, v0) > 2 THEN v0 ELSE NullVertex
        store1 == AdjDelete(AdjDelete(store, v0, v1), v1, v0)
        fwd == Unwind(store1, v1, vBranch)
        bwd == IF fwd.v # v0 THEN Unwind(fwd.store, v0, fwd.v) ELSE fwd
    IN  [store |-> bwd.store, cycle |-> cycle]

extractCycle(store, w) ==
    LET cycle == [i \in 1..Len(w) |-> store[w[i]].name]
        v0 == At(w, 0)
        v1 == At(w, 1)
        vBranch == IF AdjSize(store, v0) > 2 THEN v0 ELSE NullVertex
        store1 == AdjDelete(AdjDelete(store, v0, v1), v1, v0)
        fwd == Unwind(store1, v1, vBranch)
        bwd == IF fwd.v # v0 THEN Unwind(fwd.store, v0, fwd.v) ELSE fwd
    IN  [store |-> bwd.store, cycle |-> cycle]

(***************************************************************************)
(* Cycle trees.                                                            *)
(***************************************************************************)
CycleTree(cycle, children) == [cycle |-> cycle, children |-> children]

\* CycleTree.isEmpty
isEmpty(tree) == Len(tree.cycle) = 0 /\ Len(tree.children) = 0

\* the unwrap that takes over the child's cycle but not its children
UnwrapCycleOnly(tree) ==
    IF Len(tree.cycle) = 0 /\ Len(tree.children) = 1
    THEN CycleTree(tree.children[1].cycle, <<>>)
    ELSE tree

\* no cycle and exactly one child: the child's cycle and children are taken over
Unwrap(tree) ==
    IF Len(tree.cycle) = 0 /\ Len(tree.children) = 1
    THEN CycleTree(tree.children[1].cycle, tree.children[1].children)
    ELSE tree

(***************************************************************************)
(* The state: the instance (vertexStore), the call in progress and its     *)
(* outcome.  stack holds the activations of extractBasis ("basis") and of  *)
(* extractCycleFromClosedWalk ("walk" when the simplified walk is longer   *)
(* than 3, "bridge" otherwise), the innermost last.                        *)
(***************************************************************************)
VARIABLES
    vertexStore,   \* PlanarFaceTree.vertexStore
    phase,         \* "idle", "running" (inside discover) or "hung"
    positions,     \* the arguments of the last call of discover
    edges,
    components,    \* the components not yet passed to extractBasis
    forest,        \* the forest under construction
    stack,
    result,        \* the outcome of the last call
    calls,         \* the number of calls made on the instance
    storeBefore,   \* vertexStore as it was when the last call started
    areaNodes,     \* the arguments of the call of getAreaTree
    areaEdges,
    areaTree,      \* what the call of getAreaTree gave
    call,          \* the call made of a function of the geometry, its arguments
    answer         \* what that call returned

vars == <<vertexStore, phase, positions, edges, components, forest, stack,
          result, calls, storeBefore, areaNodes, areaEdges, areaTree,
          call, answer>>

NoResult == [type |-> "NONE", reason |-> "", forest |-> <<>>]
ErrorResult(reason) == [type |-> "ERROR", reason |-> reason, forest |-> <<>>]
ForestResult(f) == [type |-> "RESULT", reason |-> "", forest |-> f]
ThrowResult == [type |-> "THROW", reason |-> "TypeError", forest |-> <<>>]

Frame(kind, component, walk, pending) ==
    [kind |-> kind, component |-> component, pruned |-> FALSE,
     walk |-> walk, pending |-> pending, children |-> <<>>]


(***************************************************************************)
(* The steps of discover, as functions of a configuration: the record of   *)
(* the instance and of the call in progress.                               *)
(***************************************************************************)
Config(store, ph, comps, f, st, res) ==
    [vertexStore |-> store, phase |-> ph, components |-> comps, forest |-> f,
     stack |-> st, result |-> res]

Top(c) == c.stack[Len(c.stack)]
Below(c) == SubSeq(c.stack, 1, Len(c.stack) - 1)
TopIs(c, kind) ==
    c.phase = "running" /\ Len(c.stack) > 0 /\ Top(c).kind = kind

\* a discover that builds a record for every position
BeginDiscoverAllPositions(store, P, E) ==
    LET reason == validateInputs(P, E)
        names == [k \in 1..Len(P) |-> k - 1]
        base == Len(store)
        store1 == store \o [k \in 1..Len(names) |-> Vertex(names[k], P[names[k] + 1])]
        store2 == BuildAdjacency(store1, E, names, base)
        found == FindComponents([store |-> store2, k |-> 1, components |-> <<>>])
    IN  IF reason # "OK"
        THEN Config(store, "idle", <<>>, <<>>, <<>>, ErrorResult(reason))
        ELSE Config(ResetVisited(found.store), "running", found.components, <<>>,
                    <<>>, NoResult)

\* a discover that empties the vertexStore before it validates
BeginDiscoverClearing(store, P, E) ==
    LET reason == validateInputs(P, E)
        names == UniqueNames(E)
        store1 == [k \in 1..Len(names) |-> Vertex(names[k], P[names[k] + 1])]
        store2 == BuildAdjacency(store1, E, names, 0)
        found == FindComponents([store |-> store2, k |-> 1, components |-> <<>>])
    IN  IF reason # "OK"
        THEN Config(<<>>, "idle", <<>>, <<>>, <<>>, ErrorResult(reason))
        ELSE Config(ResetVisited(found.store), "running", found.components, <<>>,
                    <<>>, NoResult)

\* discover up to the reset of the visited marks: validation, the records
\* of the names in edges, the adjacency sets, the components
BeginDiscover(store, P, E) ==
    LET reason == validateInputs(P, E)
        names == UniqueNames(E)
        base == Len(store)
        store1 == store \o [k \in 1..Len(names) |-> Vertex(names[k], P[names[k] + 1])]
        store2 == BuildAdjacency(store1, E, names, base)
        found == FindComponents([store |-> store2, k |-> 1, components |-> <<>>])
    IN  IF reason # "OK"
        THEN Config(store, "idle", <<>>, <<>>, <<>>, ErrorResult(reason))
        ELSE Config(ResetVisited(found.store), "running", found.components, <<>>,
                    <<>>, NoResult)

\* components.forEach: the call extractBasis(component)
CanStartBasis(c) ==
    c.phase = "running" /\ Len(c.stack) = 0 /\ Len(c.components) > 0

StartBasisStep(c) ==
    [c EXCEPT !.stack = <<Frame("basis", Head(c.components), <<>>, <<>>)>>]

\* extractBasis: the loop test and this.removeFilaments(component)
CanRemoveFilaments(c) ==
    TopIs(c, "basis") /\ ~Top(c).pruned /\ Len(Top(c).component) > 0

RemoveFilamentsStep(c) ==
    LET r == removeFilaments(c.vertexStore, Top(c).component)
    IN  [c EXCEPT !.vertexStore = r.store,
                  !.stack[Len(c.stack)].component = r.component,
                  !.stack[Len(c.stack)].pruned = Len(r.component) > 0]

\* extractCycleFromComponent up to the call of extractCycleFromClosedWalk, and
\* the simplification of the walk there
CanExtractCycleFromComponent(c) == TopIs(c, "basis") /\ Top(c).pruned

ExtractCycleFromComponentStep(c) ==
    LET component == Top(c).component
        closed == ClosedWalk(c.vertexStore, MinVertex(c.vertexStore, component))
        simple == Simplify(closed.walk)
    IN  CASE closed.status = "throw" ->
                [c EXCEPT !.phase = "idle", !.stack = <<>>, !.components = <<>>,
                          !.forest = <<>>, !.result = ThrowResult]
          [] closed.status = "diverge" ->
                [c EXCEPT !.phase = "hung"]
          [] OTHER ->
                IF Len(simple.walk) > 3
                THEN [c EXCEPT !.stack = Append(@,
                         Frame("walk", <<>>, simple.walk, SetAdd(simple.detachments, 0)))]
                ELSE [c EXCEPT !.stack = Append(@,
                         Frame("bridge", <<>>, simple.walk, <<0>>))]

\* one iteration of detachments.forEach
CanDetach(c) == TopIs(c, "walk") /\ Len(Top(c).pending) > 0

DetachStep(c) ==
    LET i == Head(Top(c).pending)
        moved == InWedge(c.vertexStore, Top(c).walk, i)
        r == DetachClone(c.vertexStore, At(Top(c).walk, i), moved)
        rest == [c EXCEPT !.stack[Len(c.stack)].pending = Tail(@)]
    IN  IF Len(moved) > 0
        THEN [rest EXCEPT !.vertexStore = r.store,
                          !.stack = Append(@, Frame("basis", r.component, <<>>, <<>>))]
        ELSE rest

\* the walk of length at most 3: the edge to closedWalk.value[1] goes to a clone
CanBridge(c) == TopIs(c, "bridge") /\ Len(Top(c).pending) > 0

BridgeStep(c) ==
    LET w == Top(c).walk
        r == DetachClone(c.vertexStore, At(w, 0), <<At(w, 1)>>)
    IN  [c EXCEPT !.vertexStore = r.store,
                  !.stack = Append([@ EXCEPT ![Len(c.stack)].pending = <<>>],
                                   Frame("basis", r.component, <<>>, <<>>))]

\* extractBasis returns: to discover (forest.push) or to
\* extractCycleFromClosedWalk (tree.children.push)
CanBasisReturn(c) ==
    TopIs(c, "basis") /\ ~Top(c).pruned /\ Len(Top(c).component) = 0

BasisReturnStep(c) ==
    LET tree == Unwrap(CycleTree(<<>>, Top(c).children))
    IN  IF Len(c.stack) = 1
        THEN [c EXCEPT !.stack = <<>>,
                       !.forest = Append(@, tree),
                       !.components = Tail(@)]
        ELSE [c EXCEPT !.stack = [Below(c) EXCEPT ![Len(c.stack) - 1].children =
                                     Append(@, tree)]]

\* extractCycleFromClosedWalk returns to extractCycleFromComponent, which drops
\* the records left without neighbours and returns the tree to extractBasis
ReturnTree(c, store, tree) ==
    [c EXCEPT !.vertexStore = store,
              !.stack = [Below(c) EXCEPT
                  ![Len(c.stack) - 1].component = Remaining(store, @),
                  ![Len(c.stack) - 1].children = Append(@, tree),
                  ![Len(c.stack) - 1].pruned = FALSE]]

CanFinishWalk(c) == TopIs(c, "walk") /\ Len(Top(c).pending) = 0

FinishWalkStep(c) ==
    LET r == extractCycle(c.vertexStore, Top(c).walk)
    IN  ReturnTree(c, r.store, CycleTree(r.cycle, Top(c).children))

\* a return from the walk of length at most 3 that keeps the wrapper
FinishBridgeStepWrapped(c) ==
    ReturnTree(c, c.vertexStore, CycleTree(<<>>, Top(c).children))

CanFinishBridge(c) == TopIs(c, "bridge") /\ Len(Top(c).pending) = 0

FinishBridgeStep(c) ==
    ReturnTree(c, c.vertexStore, Unwrap(CycleTree(<<>>, Top(c).children)))

\* a return of discover that keeps the empty trees
ReturnStepUnfiltered(c) ==
    [c EXCEPT !.phase = "idle",
              !.forest = <<>>,
              !.result = ForestResult(c.forest)]

\* discover returns the trees that are not empty
CanReturn(c) ==
    c.phase = "running" /\ Len(c.stack) = 0 /\ Len(c.components) = 0

ReturnStep(c) ==
    [c EXCEPT !.phase = "idle",
              !.forest = <<>>,
              !.result = ForestResult(SelectSeq(c.forest, LAMBDA t : ~isEmpty(t)))]

\* the step of discover that is enabled in c; discover is sequential
StepOf(c) ==
    CASE CanStartBasis(c) -> StartBasisStep(c)
      [] CanRemoveFilaments(c) -> RemoveFilamentsStep(c)
      [] CanExtractCycleFromComponent(c) -> ExtractCycleFromComponentStep(c)
      [] CanDetach(c) -> DetachStep(c)
      [] CanBridge(c) -> BridgeStep(c)
      [] CanBasisReturn(c) -> BasisReturnStep(c)
      [] CanFinishWalk(c) -> FinishWalkStep(c)
      [] CanFinishBridge(c) -> FinishBridgeStep(c)
      [] CanReturn(c) -> ReturnStep(c)

\* the steps from c to the end of the call, at most n of them, split in
\* two halves
RECURSIVE RunToEnd(_, _)
RunToEnd(c, n) ==
    IF c.phase # "running" THEN c
    ELSE IF n <= 1 THEN StepOf(c)
    ELSE RunToEnd(RunToEnd(c, n \div 2), n - (n \div 2))

\* a whole call discover(P, E) on an instance whose vertexStore is store
discover(store, P, E) == RunToEnd(BeginDiscover(store, P, E), MaxSteps)

(***************************************************************************)
(* The area tree (getAreaTree) and its geometry.  The areas of the code    *)
(* are multiples of 1/2; total and withoutChildren hold them in halves of  *)
(* a unit square, that is, twice the number the code holds.                *)
(***************************************************************************)
\* the positions of a closed path of names, without the closing name
getPointPath(nodes, path) == [k \in 1..(Len(path) - 1) |-> nodes[path[k] + 1]]

\* the segments between consecutive points, the last one back to the first
getLinePath(points) ==
    [k \in 1..Len(points) |->
        <<points[k], IF k < Len(points) THEN points[k + 1] ELSE points[1]>>]

\* the sum of (x2 - x1) * (y2 + y1) over the points from index k on
RECURSIVE WindingSum(_, _)
WindingSum(points, k) ==
    IF k > Len(points) THEN 0
    ELSE LET a == points[k]
             b == IF k < Len(points) THEN points[k + 1] ELSE points[1]
         IN  (b[1] - a[1]) * (b[2] + a[2]) + WindingSum(points, k + 1)

\* the winding order read with the y axis pointing down
determineWindingOrderYDown(points) ==
    LET res == WindingSum(points, 1)
    IN  IF res = 0 THEN "CL" ELSE IF res > 0 THEN "CCW" ELSE "CW"

determineWindingOrder(points) ==
    LET res == WindingSum(points, 1)
    IN  IF res = 0 THEN "CL" ELSE IF res > 0 THEN "CW" ELSE "CCW"

RECURSIVE MaxXFrom(_, _, _)
MaxXFrom(pos, k, max) ==
    IF k > Len(pos) THEN max
    ELSE MaxXFrom(pos, k + 1, IF pos[k][1] > max THEN pos[k][1] ELSE max)

getMaxX(pos) == MaxXFrom(pos, 1, -1)

Min2(a, b) == IF a < b THEN a ELSE b
Max2(a, b) == IF a < b THEN b ELSE a

\* q lies in the bounding box of p and r
onSegment(p, q, r) ==
    /\ q[1] <= Max2(p[1], r[1]) /\ q[1] >= Min2(p[1], r[1])
    /\ q[2] <= Max2(p[2], r[2]) /\ q[2] >= Min2(p[2], r[2])

intersect(p1, q1, p2, q2) ==
    LET o1 == determineWindingOrder(<<p1, q1, p2>>)
        o2 == determineWindingOrder(<<p1, q1, q2>>)
        o3 == determineWindingOrder(<<p2, q2, p1>>)
        o4 == determineWindingOrder(<<p2, q2, q1>>)
    IN  \/ o1 # o2 /\ o3 # o4
        \/ o1 = "CL" /\ onSegment(p1, p2, q1)
        \/ o2 = "CL" /\ onSegment(p1, q2, q1)
        \/ o3 = "CL" /\ onSegment(p2, p1, q2)
        \/ o4 = "CL" /\ onSegment(p2, q1, q2)

\* the do-while of isInside: the pass at side i (i counts from 0) with count
\* crossings so far, and then the test i != 0 on the next side.  The first
\* side met by the ray on whose line p lies decides.  A pass that reads
\* polygon[i] past the end (an empty polygon) hands undefined to intersect,
\* which throws the TypeError that "TypeError" stands for.
RECURSIVE IsInsideScan(_, _, _, _, _)
IsInsideScan(p, polygon, extreme, i, count) ==
    IF i >= Len(polygon) THEN "TypeError"
    ELSE LET next == (i + 1) % Len(polygon)
             from == polygon[i + 1]
             to == polygon[next + 1]
             crossed == intersect(from, to, p, extreme)
             counted == IF crossed THEN count + 1 ELSE count
         IN  IF crossed /\ determineWindingOrder(<<from, p, to>>) = "CL"
             THEN onSegment(from, p, to)
             ELSE IF next # 0
             THEN IsInsideScan(p, polygon, extreme, next, counted)
             ELSE counted % 2 = 1

isInside(nodes, p, polygon) ==
    IsInsideScan(p, polygon, <<getMaxX(polygon) + 10, p[2]>>, 0, 0)

pointLiesOnPolygonBoundary(point, polygon) ==
    \E i \in 1..Len(polygon) :
        /\ determineWindingOrder(<<polygon[i][1], polygon[i][2], point>>) = "CL"
        /\ onSegment(polygon[i][1], point, polygon[i][2])

allPointsLieOnBoundary(a, b) ==
    \A i \in 1..Len(a) : pointLiesOnPolygonBoundary(a[i], b)

\* twice the area under the segment: (y1 + y2) * (x2 - x1)
areaUnderLineSegment(seg) == (seg[1][2] + seg[2][2]) * (seg[2][1] - seg[1][1])

RECURSIVE SegmentSum(_, _)
SegmentSum(lineSegments, k) ==
    IF k > Len(lineSegments) THEN 0
    ELSE areaUnderLineSegment(lineSegments[k]) + SegmentSum(lineSegments, k + 1)

\* the sum of the areas under the segments whatever the winding order
irregularPolygonAreaSigned(lineSegments, windingOrder) ==
    SegmentSum(lineSegments, 1)

irregularPolygonArea(lineSegments, windingOrder) ==
    CASE windingOrder = "CL" -> 0
      [] windingOrder = "CW" -> SegmentSum(lineSegments, 1)
      [] windingOrder = "CCW" -> 0 - SegmentSum(lineSegments, 1)

getPolygonArea(nodes, polygon) ==
    LET pointPath == getPointPath(nodes, polygon.edges)
    IN  irregularPolygonArea(getLinePath(pointPath), determineWindingOrder(pointPath))

isChildArea(childPolygon, parent, polygons, nodes) ==
    LET parentPointPath == getPointPath(nodes, polygons[parent.polygonIndex + 1].edges)
        currentPolygonPointPath == getPointPath(nodes, childPolygon.edges)
    IN  /\ isInside(nodes, currentPolygonPointPath[1], parentPointPath)
        /\ ~allPointsLieOnBoundary(currentPolygonPointPath, getLinePath(parentPointPath))

\* no call of a function of the geometry was made
NoCall == [op |-> "none"]

\* no call of getAreaTree was made
NoTree == [type |-> "NONE", children |-> <<>>]

AreaTreeRoot(children) == [type |-> "ROOT", children |-> children]

AreaTreeChild(polygonIndex, total, withoutChildren, polygon, children) ==
    [type |-> "CHILD", polygonIndex |-> polygonIndex,
     area |-> [total |-> total, withoutChildren |-> withoutChildren],
     polygon |-> polygon, children |-> children]

\* traverseAreas without the subtraction of the child's area from the
\* parent's withoutChildren
RECURSIVE traverseAreasKeepingArea(_, _, _)
traverseAreasKeepingArea(nodes, polygons, s) ==
    IF s.i > Len(polygons) THEN s
    ELSE LET p == polygons[s.i]
             skip == [s EXCEPT !.i = @ + 1]
         IN  IF s.visited[s.i] THEN traverseAreasKeepingArea(nodes, polygons, skip)
             ELSE IF s.parent.type = "ROOT" \/ isChildArea(p, s.parent, polygons, nodes)
             THEN LET newTree == AreaTreeChild(s.i - 1, p.area, p.area, p.edges, <<>>)
                      visited1 == [s.visited EXCEPT ![s.i] = TRUE]
                      sub == IF s.i < Len(polygons)
                             THEN traverseAreasKeepingArea(nodes, polygons,
                                      [parent |-> newTree, i |-> s.i + 1,
                                       visited |-> visited1])
                             ELSE [parent |-> newTree, i |-> s.i + 1,
                                   visited |-> visited1]
                      parent1 == IF s.parent.type = "CHILD"
                                 THEN [s.parent EXCEPT
                                          !.children = Append(@, sub.parent)]
                                 ELSE [s.parent EXCEPT !.children = Append(@, sub.parent)]
                  IN  traverseAreasKeepingArea(nodes, polygons,
                          [parent |-> parent1, i |-> s.i + 1, visited |-> sub.visited])
             ELSE traverseAreasKeepingArea(nodes, polygons, skip)

\* the for loop of traverseAreas from index s.i (counting from 1) with the
\* tree s.parent and the visited flags s.visited of the polygons
RECURSIVE traverseAreas(_, _, _)
traverseAreas(nodes, polygons, s) ==
    IF s.i > Len(polygons) THEN s
    ELSE LET p == polygons[s.i]
             skip == [s EXCEPT !.i = @ + 1]
         IN  IF s.visited[s.i] THEN traverseAreas(nodes, polygons, skip)
             ELSE IF s.parent.type = "ROOT" \/ isChildArea(p, s.parent, polygons, nodes)
             THEN LET newTree == AreaTreeChild(s.i - 1, p.area, p.area, p.edges, <<>>)
                      visited1 == [s.visited EXCEPT ![s.i] = TRUE]
                      sub == IF s.i < Len(polygons)
                             THEN traverseAreas(nodes, polygons,
                                      [parent |-> newTree, i |-> s.i + 1,
                                       visited |-> visited1])
                             ELSE [parent |-> newTree, i |-> s.i + 1,
                                   visited |-> visited1]
                      parent1 == IF s.parent.type = "CHILD"
                                 THEN [s.parent EXCEPT
                                          !.children = Append(@, sub.parent),
                                          !.area.withoutChildren = @ - p.area]
                                 ELSE [s.parent EXCEPT !.children = Append(@, sub.parent)]
                  IN  traverseAreas(nodes, polygons,
                          [parent |-> parent1, i |-> s.i + 1, visited |-> sub.visited])
             ELSE traverseAreas(nodes, polygons, skip)

\* the polygons left in the order of the flattened forest
SortByAreaNotAtAll(polygons, k, sorted) == polygons

\* Array.prototype.sort with (a, b) => b.area - a.area: descending, stable;
\* the list sorted so far receives the polygon k behind those not smaller
RECURSIVE SortByArea(_, _, _)
SortByArea(polygons, k, sorted) ==
    IF k > Len(polygons) THEN sorted
    ELSE LET before == SelectSeq(sorted, LAMBDA q : q.area >= polygons[k].area)
             after == SelectSeq(sorted, LAMBDA q : q.area < polygons[k].area)
         IN  SortByArea(polygons, k + 1, before \o <<polygons[k]>> \o after)

\* a nesting tree whose ROOT gives way to its only child
buildNestingTreeUnwrapped(nodes, polygons) ==
    LET inputPolygons ==
            SortByArea([ix \in 1..Len(polygons) |->
                           [edges |-> polygons[ix].edges, id |-> ix - 1,
                            area |-> getPolygonArea(nodes, polygons[ix])]],
                       1, <<>>)
        root == traverseAreas(nodes, inputPolygons,
                    [parent |-> AreaTreeRoot(<<>>), i |-> 1,
                     visited |-> [k \in 1..Len(inputPolygons) |-> FALSE]]).parent
    IN  IF Len(root.children) = 1 THEN root.children[1] ELSE root

buildNestingTree(nodes, polygons) ==
    LET inputPolygons ==
            SortByArea([ix \in 1..Len(polygons) |->
                           [edges |-> polygons[ix].edges, id |-> ix - 1,
                            area |-> getPolygonArea(nodes, polygons[ix])]],
                       1, <<>>)
    IN  traverseAreas(nodes, inputPolygons,
            [parent |-> AreaTreeRoot(<<>>), i |-> 1,
             visited |-> [k \in 1..Len(inputPolygons) |-> FALSE]]).parent

\* the cycles of the forest in pre-order, without the empty ones
RECURSIVE CyclesInPreOrder(_)
CyclesInPreOrder(trees) ==
    IF Len(trees) = 0 THEN <<>>
    ELSE <<trees[1].cycle>> \o CyclesInPreOrder(trees[1].children)
            \o CyclesInPreOrder(Tail(trees))

getCyclesFromCycleForest(trees) ==
    SelectSeq(CyclesInPreOrder(trees), LAMBDA arr : Len(arr) # 0)

\* getAreaTree with an empty tree where discover reports an ERROR
getAreaTreeSilent(nodes, E) ==
    LET faces == discover(<<>>, nodes, E)
        flattenedFaces == getCyclesFromCycleForest(faces.result.forest)
    IN  IF faces.phase = "hung" THEN [type |-> "HUNG", children |-> <<>>]
        ELSE IF faces.result.type = "THROW"
        THEN [type |-> "THROW", reason |-> faces.result.reason, children |-> <<>>]
        ELSE buildNestingTree(nodes, [k \in 1..Len(flattenedFaces) |->
                                         [edges |-> flattenedFaces[k]]])

\* getAreaTree(nodes, E): discover on a new PlanarFaceTree, then the
\* nesting tree of the faces; an ERROR is thrown as an Error with the reason,
\* and a TypeError of discover passes through
getAreaTree(nodes, E) ==
    LET faces == discover(<<>>, nodes, E)
        flattenedFaces == getCyclesFromCycleForest(faces.result.forest)
    IN  IF faces.phase = "hung" THEN [type |-> "HUNG", children |-> <<>>]
        ELSE IF faces.result.type = "ERROR"
        THEN [type |-> "THROW", reason |-> faces.result.reason, children |-> <<>>]
        ELSE IF faces.result.type = "THROW"
        THEN [type |-> "THROW", reason |-> faces.result.reason, children |-> <<>>]
        ELSE buildNestingTree(nodes, [k \in 1..Len(flattenedFaces) |->
                                         [edges |-> flattenedFaces[k]]])

(***************************************************************************)
(* The inputs explored.  An input is <<positions, edges>>; names count     *)
(* from 0 as in the code.                                                  *)
(***************************************************************************)
GridPoints == << <<0, 0>>, <<6, 0>>, <<0, 6>>, <<2, 1>>, <<1, 2>>, <<3, 2>>, <<5, 5>> >>

GridPairs == { <<a, b>> : a \in 0..(NPts - 2), b \in 1..(NPts - 1) } \cap
             { pr \in (0..(NPts - 1)) \X (0..(NPts - 1)) : pr[1] < pr[2] }

\* the elements of a set of pairs as a list, in lexicographic order
RECURSIVE PairList(_)
PairList(S) ==
    IF S = {} THEN <<>>
    ELSE LET least == CHOOSE x \in S : \A y \in S :
                          x[1] < y[1] \/ (x[1] = y[1] /\ x[2] <= y[2])
         IN  <<least>> \o PairList(S \ {least})

(***************************************************************************)
(* The precondition of discover: distinct non-negative positions, unique   *)
(* ordered edges between existing positions, no self-loop, and straight    *)
(* edges that meet only at shared endpoints.                               *)
(***************************************************************************)
Cross(o, a, b) == (a[1] - o[1]) * (b[2] - o[2]) - (a[2] - o[2]) * (b[1] - o[1])


\* q lies in the bounding box of p and r
InBox(p, q, r) ==
    /\ Min2(p[1], r[1]) <= q[1] /\ q[1] <= Max2(p[1], r[1])
    /\ Min2(p[2], r[2]) <= q[2] /\ q[2] <= Max2(p[2], r[2])

\* the segments ab and cd, no two endpoints equal, have a common point
SegmentsMeet(a, b, c, d) ==
    LET d1 == Cross(a, b, c)
        d2 == Cross(a, b, d)
        d3 == Cross(c, d, a)
        d4 == Cross(c, d, b)
    IN  \/ /\ (d1 > 0 /\ d2 < 0) \/ (d1 < 0 /\ d2 > 0)
           /\ (d3 > 0 /\ d4 < 0) \/ (d3 < 0 /\ d4 > 0)
        \/ d1 = 0 /\ InBox(a, c, b)
        \/ d2 = 0 /\ InBox(a, d, b)
        \/ d3 = 0 /\ InBox(c, a, d)
        \/ d4 = 0 /\ InBox(c, b, d)

\* the segments from s to a and from s to b overlap beyond s
SegmentsOverlapAt(s, a, b) ==
    /\ Cross(s, a, b) = 0
    /\ (a[1] - s[1]) * (b[1] - s[1]) + (a[2] - s[2]) * (b[2] - s[2]) > 0

\* the undirected edges e and f (sets of two names) meet outside a shared endpoint
EdgesConflict(P, e, f) ==
    LET shared == e \cap f
    IN  IF shared = {}
        THEN LET a == CHOOSE x \in e : TRUE
                 b == CHOOSE x \in e : x # a
                 c == CHOOSE x \in f : TRUE
                 d == CHOOSE x \in f : x # c
             IN  SegmentsMeet(P[a + 1], P[b + 1], P[c + 1], P[d + 1])
        ELSE LET q == CHOOSE x \in shared : TRUE
                 a == CHOOSE x \in e : x # q
                 b == CHOOSE x \in f : x # q
             IN  SegmentsOverlapAt(P[q + 1], P[a + 1], P[b + 1])

\* the distinct undirected edges of an edge list, as sets of names
UndirectedEdges(E) == { {E[i][1], E[i][2]} : i \in 1..Len(E) }

NamesIn(E) == UNION UndirectedEdges(E)

Planar(P, undirected) ==
    \A e \in undirected : \A f \in undirected : e # f => ~EdgesConflict(P, e, f)

ValidPlanar(P, E) ==
    /\ Len(P) > 0 /\ Len(E) > 0
    /\ \A i \in 1..Len(P) : P[i][1] >= 0 /\ P[i][2] >= 0
    /\ \A i \in 1..Len(P) : \A j \in 1..Len(P) : i # j => P[i] # P[j]
    /\ \A i \in 1..Len(E) : E[i][1] \in 0..(Len(P) - 1) /\ E[i][2] \in 0..(Len(P) - 1)
    /\ \A i \in 1..Len(E) : \A j \in 1..Len(E) : i # j => E[i] # E[j]
    /\ \A i \in 1..Len(E) : E[i][1] # E[i][2]
    /\ Planar(P, UndirectedEdges(E))

(***************************************************************************)
(* The catalogue of inputs.                                                *)
(***************************************************************************)
\* two triangles sharing an edge
TwoTriangles ==
    << <<<<0, 0>>, <<2, 0>>, <<1, 2>>, <<3, 2>>>>,
       <<<<0, 1>>, <<1, 2>>, <<2, 0>>, <<1, 3>>, <<3, 2>>>> >>

\* a single edge
SingleEdge ==
    << <<<<0, 0>>, <<1, 0>>>>,
       <<<<0, 1>>>> >>

\* a path
Filament ==
    << <<<<0, 0>>, <<1, 0>>, <<2, 0>>, <<3, 0>>>>,
       <<<<0, 1>>, <<1, 2>>, <<2, 3>>>> >>

\* a tree with a branching vertex and an unused position
Star ==
    << <<<<1, 1>>, <<0, 0>>, <<2, 0>>, <<1, 3>>, <<5, 5>>>>,
       <<<<0, 1>>, <<0, 2>>, <<3, 0>>>> >>

\* a square inside a square, not connected
NestedSquares ==
    << <<<<0, 0>>, <<10, 0>>, <<10, 10>>, <<0, 10>>, <<3, 3>>, <<7, 3>>, <<7, 7>>, <<3, 7>>>>,
       <<<<0, 1>>, <<1, 2>>, <<2, 3>>, <<3, 0>>, <<4, 5>>, <<5, 6>>, <<6, 7>>, <<7, 4>>>> >>

\* a square inside a square, joined by an edge
BridgedSquares ==
    << <<<<0, 0>>, <<10, 0>>, <<10, 10>>, <<0, 10>>, <<3, 3>>, <<7, 3>>, <<7, 7>>, <<3, 7>>>>,
       <<<<0, 1>>, <<1, 2>>, <<2, 3>>, <<3, 0>>, <<4, 5>>, <<5, 6>>, <<6, 7>>, <<7, 4>>, <<0, 4>>>> >>

\* a triangle with every edge given in both directions
BothDirections ==
    << <<<<20, 400>>, <<100, 100>>, <<50, 50>>>>,
       <<<<0, 1>>, <<1, 0>>, <<1, 2>>, <<2, 1>>, <<2, 0>>, <<0, 2>>>> >>

\* a triangle with a filament
TriangleWithTail ==
    << <<<<0, 0>>, <<4, 0>>, <<2, 3>>, <<6, 1>>, <<8, 1>>>>,
       <<<<3, 4>>, <<1, 3>>, <<0, 1>>, <<1, 2>>, <<2, 0>>>> >>

\* three nested faces joined by bridges
BridgeBridge ==
    << <<<<0, 0>>, <<20, 0>>, <<20, 20>>, <<0, 20>>, <<2, 2>>, <<10, 3>>, <<3, 10>>, <<4, 4>>, <<6, 4>>, <<4, 6>>>>,
       <<<<0, 1>>, <<1, 2>>, <<2, 3>>, <<3, 0>>, <<0, 4>>, <<4, 5>>, <<5, 6>>, <<6, 4>>, <<4, 7>>, <<7, 8>>, <<8, 9>>, <<9, 7>>>> >>

\* three nested faces sharing one vertex
SharedShared ==
    << <<<<0, 0>>, <<20, 0>>, <<20, 20>>, <<0, 20>>, <<10, 3>>, <<3, 10>>, <<4, 3>>, <<3, 4>>>>,
       <<<<0, 1>>, <<1, 2>>, <<2, 3>>, <<3, 0>>, <<0, 4>>, <<4, 5>>, <<5, 0>>, <<0, 6>>, <<6, 7>>, <<7, 0>>>> >>

\* a face sharing a vertex, a bridge to a face inside it
SharedBridge ==
    << <<<<0, 0>>, <<20, 0>>, <<20, 20>>, <<0, 20>>, <<10, 3>>, <<3, 10>>, <<8, 4>>, <<6, 4>>, <<6, 5>>>>,
       <<<<0, 1>>, <<1, 2>>, <<2, 3>>, <<3, 0>>, <<0, 4>>, <<4, 5>>, <<5, 0>>, <<4, 6>>, <<6, 7>>, <<7, 8>>, <<8, 6>>>> >>

\* two faces at a clone two levels deep
DeepFan ==
    << <<<<0, 0>>, <<20, 0>>, <<20, 20>>, <<0, 20>>, <<4, 4>>, <<16, 4>>, <<10, 16>>, <<8, 10>>, <<12, 10>>, <<10, 7>>, <<10, 12>>>>,
       <<<<0, 1>>, <<1, 2>>, <<2, 3>>, <<3, 0>>, <<0, 4>>, <<4, 5>>, <<5, 6>>, <<6, 4>>, <<6, 7>>, <<6, 8>>, <<7, 8>>, <<7, 9>>, <<8, 9>>, <<6, 10>>, <<10, 7>>>> >>

\* the leftmost vertex starts on a bridge
TwoLobes ==
    << <<<<2, 0>>, <<4, 0>>, <<0, 2>>, <<6, 6>>, <<3, 5>>, <<7, 1>>, <<3, 7>>, <<3, 4>>, <<0, 7>>, <<2, 1>>, <<2, 7>>>>,
       <<<<9, 2>>, <<6, 4>>, <<5, 1>>, <<7, 5>>, <<2, 10>>, <<0, 7>>, <<9, 4>>, <<10, 8>>, <<6, 9>>, <<9, 0>>, <<3, 7>>, <<1, 7>>, <<5, 3>>, <<8, 2>>>> >>

\* a face with a dent on its left side, inside a square; a face hangs from
\* the vertex of the dent by an edge straight up and an edge straight down
IndentedFace ==
    << <<<<0, 0>>, <<20, 0>>, <<20, 20>>, <<0, 20>>, <<4, 4>>, <<16, 4>>, <<16, 16>>, <<4, 16>>,
         <<8, 10>>, <<8, 13>>, <<8, 7>>, <<11, 10>>>>,
       <<<<0, 1>>, <<1, 2>>, <<2, 3>>, <<3, 0>>, <<0, 4>>, <<4, 5>>, <<5, 6>>, <<6, 7>>, <<7, 8>>,
         <<8, 4>>, <<8, 9>>, <<8, 10>>, <<9, 11>>, <<10, 11>>>> >>

\* two crossing edges (not planar)
Crossing ==
    << <<<<0, 0>>, <<2, 0>>, <<2, 2>>, <<0, 2>>>>,
       <<<<0, 2>>, <<1, 3>>, <<0, 1>>, <<1, 2>>>> >>

\* a triangle and a self-loop
SelfLoop ==
    << <<<<0, 0>>, <<2, 0>>, <<0, 2>>>>,
       <<<<0, 1>>, <<1, 2>>, <<2, 0>>, <<1, 1>>>> >>

\* a fan of triangles crossed by two edges (not planar)
CrossedFan ==
    << <<<<2, 1>>, <<1, 2>>, <<2, 2>>, <<0, 0>>, <<2, 0>>, <<0, 2>>>>,
       <<<<1, 2>>, <<0, 5>>, <<3, 5>>, <<1, 3>>, <<0, 3>>, <<3, 4>>, <<1, 4>>, <<2, 3>>>> >>

\* the leftmost vertex has a bridge to two triangles and a triangle of its own
BridgeFirst ==
    << <<<<0, 0>>, <<2, 4>>, <<3, 6>>, <<4, 4>>, <<5, 6>>, <<1, 5>>, <<0, 5>>>>,
       <<<<0, 1>>, <<1, 2>>, <<1, 3>>, <<2, 3>>, <<2, 4>>, <<3, 4>>, <<0, 5>>, <<5, 6>>, <<6, 0>>>> >>

Catalogue ==
    { TwoTriangles, SingleEdge, Filament, Star, NestedSquares, BridgedSquares,
      BothDirections, TriangleWithTail, BridgeBridge, SharedShared, SharedBridge,
      DeepFan, TwoLobes, Crossing, SelfLoop, CrossedFan, BridgeFirst, IndentedFace }

\* every planar set of edges between the first NPts points of GridPoints
GraphFamily ==
    LET P == SubSeq(GridPoints, 1, NPts)
    IN  { <<P, PairList(S)>> :
            S \in { T \in SUBSET GridPairs : Planar(P, { {pr[1], pr[2]} : pr \in T }) } }

\* short lists of positions and of edges, with every kind of defect
DefectPoints == { <<0, 0>>, <<0, 1>>, <<-1, 0>>, <<1, -1>> }
DefectPairs == { <<0, 1>>, <<1, 0>>, <<1, 2>>, <<-1, 0>>, <<0, 0>> }

ValidationFamily == SeqsUpTo(DefectPoints, MaxLen) \X SeqsUpTo(DefectPairs, MaxLen)

\* lists one element longer, where a defect of one kind comes before or
\* after a defect of another kind in the same list: of positions with one
\* good edge, and of edges between two good positions
OrderPoints == { <<0, 0>>, <<0, 1>>, <<-1, 0>> }
OrderPairs == { <<0, 1>>, <<1, 0>>, <<0, 5>> }

OrderFamily ==
    ([1..(MaxLen + 1) -> OrderPoints] \X { << <<0, 1>> >> })
        \cup ({ << <<0, 0>>, <<0, 1>> >> } \X [1..(MaxLen + 1) -> OrderPairs])

\* the inputs of the calls made on an instance that is used again
ReuseInputs ==
    { TwoTriangles, SingleEdge,
      << <<>>, <<>> >>,
      << << <<1, 1>>, <<1, 1>> >>, << <<0, 1>> >> >>,
      << << <<0, 0>>, <<1, 0>> >>, << <<0, 5>> >> >> }

\* a triangle with a triangle inside it at one of its corners
SharedCorner ==
    << <<<<0, 0>>, <<6, 0>>, <<0, 6>>, <<2, 1>>, <<1, 2>>>>,
       <<<<0, 1>>, <<1, 2>>, <<2, 0>>, <<0, 3>>, <<3, 4>>, <<4, 0>>>> >>

\* the lists that hold the elements of the list s in another order
Reorderings(s) ==
    { [i \in 1..Len(s) |-> s[f[i]]] : f \in Permutations(1..Len(s)) }

\* the edges of a graph in every order
PermutationFamily ==
    UNION { { <<input[1], E>> : E \in Reorderings(input[2]) } :
              input \in {TwoTriangles, SharedCorner} }

FirstInputs ==
    Catalogue \cup GraphFamily \cup ValidationFamily \cup ReuseInputs
        \cup PermutationFamily \cup OrderFamily

\* a square split by a diagonal, with a small triangle on its right side
SplitSquare ==
    << <<<<0, 0>>, <<4, 0>>, <<4, 4>>, <<0, 4>>, <<6, 0>>, <<6, 2>>>>,
       <<<<0, 1>>, <<1, 2>>, <<2, 3>>, <<3, 0>>, <<0, 2>>, <<1, 4>>, <<4, 5>>, <<5, 1>>>> >>

\* a square in a square in a square, and a triangle beside them
ThreeSquares ==
    << <<<<0, 0>>, <<12, 0>>, <<12, 12>>, <<0, 12>>, <<2, 2>>, <<10, 2>>, <<10, 10>>, <<2, 10>>,
         <<4, 4>>, <<8, 4>>, <<8, 8>>, <<4, 8>>, <<14, 0>>, <<16, 0>>, <<14, 2>>>>,
       <<<<0, 1>>, <<1, 2>>, <<2, 3>>, <<3, 0>>, <<4, 5>>, <<5, 6>>, <<6, 7>>, <<7, 4>>,
         <<8, 9>>, <<9, 10>>, <<10, 11>>, <<11, 8>>, <<12, 13>>, <<13, 14>>, <<14, 12>>>> >>

\* the inputs of getAreaTree
AreaInputs ==
    Catalogue \cup GraphFamily \cup ReuseInputs \cup ValidationFamily
        \cup {SplitSquare, ThreeSquares}

(***************************************************************************)
(* The state machine.                                                      *)
(***************************************************************************)
Init ==
    /\ vertexStore = <<>>
    /\ phase = "idle"
    /\ positions = <<>>
    /\ edges = <<>>
    /\ components = <<>>
    /\ forest = <<>>
    /\ stack = <<>>
    /\ result = NoResult
    /\ calls = 0
    /\ storeBefore = <<>>
    /\ areaNodes = <<>>
    /\ areaEdges = <<>>
    /\ areaTree = NoTree
    /\ call = NoCall
    /\ answer = NoCall

Current == Config(vertexStore, phase, components, forest, stack, result)

Become(c) ==
    /\ vertexStore' = c.vertexStore
    /\ phase' = c.phase
    /\ components' = c.components
    /\ forest' = c.forest
    /\ stack' = c.stack
    /\ result' = c.result

\* a call of discover: on a new instance with any input, and again on an
\* instance whose earlier calls had inputs of ReuseInputs
\* (getAreaTree shares nothing with the instance: the calls of discover
\* are explored where no call of getAreaTree was made)
Discover ==
    /\ phase = "idle"
    /\ areaTree = NoTree
    /\ calls < MaxCalls
    /\ calls > 0 => <<positions, edges>> \in ReuseInputs
    /\ \E input \in IF calls = 0 THEN FirstInputs ELSE ReuseInputs :
          /\ positions' = input[1]
          /\ edges' = input[2]
          /\ Become(BeginDiscover(vertexStore, input[1], input[2]))
    /\ calls' = calls + 1
    /\ storeBefore' = vertexStore
    /\ UNCHANGED <<areaNodes, areaEdges, areaTree, call, answer>>

\* a call of getAreaTree, which makes a PlanarFaceTree of its own
GetAreaTree ==
    /\ phase = "idle"
    /\ calls = 0
    /\ areaTree = NoTree
    /\ \E input \in AreaInputs :
          /\ areaNodes' = input[1]
          /\ areaEdges' = input[2]
          /\ areaTree' = getAreaTree(input[1], input[2])
    /\ UNCHANGED <<vertexStore, phase, positions, edges, components, forest,
                   stack, result, calls, storeBefore, call, answer>>

Frozen ==
    UNCHANGED <<positions, edges, calls, storeBefore, areaNodes, areaEdges, areaTree,
                call, answer>>

StartBasis ==
    /\ CanStartBasis(Current)
    /\ Become(StartBasisStep(Current))
    /\ Frozen

RemoveFilaments ==
    /\ CanRemoveFilaments(Current)
    /\ Become(RemoveFilamentsStep(Current))
    /\ Frozen

ExtractCycleFromComponent ==
    /\ CanExtractCycleFromComponent(Current)
    /\ Become(ExtractCycleFromComponentStep(Current))
    /\ Frozen

Detach ==
    /\ CanDetach(Current)
    /\ Become(DetachStep(Current))
    /\ Frozen

Bridge ==
    /\ CanBridge(Current)
    /\ Become(BridgeStep(Current))
    /\ Frozen

BasisReturn ==
    /\ CanBasisReturn(Current)
    /\ Become(BasisReturnStep(Current))
    /\ Frozen

FinishWalk ==
    /\ CanFinishWalk(Current)
    /\ Become(FinishWalkStep(Current))
    /\ Frozen

FinishBridge ==
    /\ CanFinishBridge(Current)
    /\ Become(FinishBridgeStep(Current))
    /\ Frozen

Return ==
    /\ CanReturn(Current)
    /\ Become(ReturnStep(Current))
    /\ Frozen

Next ==
    \/ Discover
    \/ GetAreaTree
    \/ StartBasis
    \/ RemoveFilaments
    \/ ExtractCycleFromComponent
    \/ Detach
    \/ Bridge
    \/ BasisReturn
    \/ FinishWalk
    \/ FinishBridge
    \/ Return

Spec == Init /\ [][Next]_vars

(***************************************************************************)
(* The functions of the geometry called on their own.  A point path is a   *)
(* list of points of PathPoints; getPolygonArea receives it as the nodes   *)
(* and the closed path of names 0, 1, ..., n - 1, 0.                       *)
(***************************************************************************)
MaxPath == 4

PathPoints ==
    { <<0, 0>>, <<2, 0>>, <<2, 2>>, <<0, 2>>, <<1, 1>>, <<4, 4>> }

PointPaths == { path \in SeqsUpTo(PathPoints, MaxPath) : Len(path) >= 3 }

ClosedNames(n) == [k \in 1..(n + 1) |-> IF k = n + 1 THEN 0 ELSE k - 1]

OnlyGeometry ==
    UNCHANGED <<vertexStore, phase, positions, edges, components, forest, stack,
                result, calls, storeBefore, areaNodes, areaEdges, areaTree>>

GetPolygonArea ==
    /\ call = NoCall
    /\ \E path \in PointPaths :
          /\ call' = [op |-> "getPolygonArea", points |-> path]
          /\ answer' = getPolygonArea(path, [edges |-> ClosedNames(Len(path))])
    /\ OnlyGeometry

DetermineWindingOrder ==
    /\ call = NoCall
    /\ \E path \in PointPaths :
          /\ call' = [op |-> "determineWindingOrder", points |-> path]
          /\ answer' = determineWindingOrder(path)
    /\ OnlyGeometry

\* A vertex with its neighbours: record 1 at StarCentre, and a record for
\* every neighbour in the order in which the adjacency set of record 1
\* holds them.
MaxAdj == 3

StarCentre == <<2, 2>>

StarPoints ==
    { <<3, 2>>, <<3, 3>>, <<2, 3>>, <<1, 3>>, <<1, 2>>, <<1, 1>>, <<2, 1>>, <<3, 1>>,
      <<4, 3>>, <<4, 4>> }

Stars ==
    { [k \in 1..(Len(around) + 1) |->
          IF k = 1
          THEN [name |-> 0, position |-> StarCentre, visited |-> 0,
                adjacent |-> [i \in 1..Len(around) |-> i + 1]]
          ELSE [name |-> k - 1, position |-> around[k - 1], visited |-> 0,
                adjacent |-> <<1>>]] :
        around \in { a \in SeqsUpTo(StarPoints, MaxAdj) :
                       /\ Len(a) >= 1
                       /\ \A i \in 1..Len(a) : \A j \in 1..Len(a) :
                             i # j => a[i] # a[j] } }

\* extractCycleFromComponent calls getClockwiseMost with vPrev null only
GetClockwiseMost ==
    /\ call = NoCall
    /\ \E star \in Stars : \E vPrev \in {NullVertex} :
          /\ call' = [op |-> "getClockwiseMost", store |-> star,
                      vPrev |-> vPrev, vCurr |-> 1]
          /\ answer' = getClockwiseMost(star, vPrev, 1)
    /\ OnlyGeometry

\* and getCounterClockwiseMost with the record the walk came from
GetCounterClockwiseMost ==
    /\ call = NoCall
    /\ \E star \in Stars : \E vPrev \in 2..Len(star) :
          /\ call' = [op |-> "getCounterClockwiseMost", store |-> star,
                      vPrev |-> vPrev, vCurr |-> 1]
          /\ answer' = getCounterClockwiseMost(star, vPrev, 1)
    /\ OnlyGeometry

GeometryNext ==
    \/ GetPolygonArea
    \/ DetermineWindingOrder
    \/ GetClockwiseMost
    \/ GetCounterClockwiseMost

GeometrySpec == Init /\ [][GeometryNext]_vars

(***************************************************************************)
(* Notions used to state the properties.                                   *)
(***************************************************************************)
\* the last call of discover has returned or thrown
Returned == calls > 0 /\ phase = "idle"

\* the cycles of a forest, every depth, parents before children
RECURSIVE CyclesOf(_)
CyclesOf(f) ==
    IF Len(f) = 0 THEN <<>>
    ELSE <<f[1].cycle>> \o CyclesOf(f[1].children) \o CyclesOf(Tail(f))

NonEmptyCycles(f) == SelectSeq(CyclesOf(f), LAMBDA cycle : Len(cycle) > 0)

\* the names joined to a name of S by a path of edges of E
RECURSIVE ReachFrom(_, _)
ReachFrom(E, S) ==
    LET T == S \cup { n \in NamesIn(E) :
                        \E e \in UndirectedEdges(E) : n \in e /\ e \cap S # {} }
    IN  IF T = S THEN S ELSE ReachFrom(E, T)

\* c, the number of connected components of the graph of E
ComponentCount(E) == Cardinality({ ReachFrom(E, {n}) : n \in NamesIn(E) })

\* m - n + c
CycleRank(E) ==
    Cardinality(UndirectedEdges(E)) - Cardinality(NamesIn(E)) + ComponentCount(E)

\* the kinds of defect of an input
Negative(pair) == pair[1] < 0 \/ pair[2] < 0
HasEmpty(P, E) == Len(P) = 0 \/ Len(E) = 0
HasSame(P) == \E i \in 1..Len(P) : \E j \in 1..Len(P) : i < j /\ P[i] = P[j]
HasNegative(P) == \E i \in 1..Len(P) : Negative(P[i])
OutOfBounds(P, edge) ==
    \/ edge[1] < 0 \/ edge[1] > Len(P) - 1
    \/ edge[2] < 0 \/ edge[2] > Len(P) - 1
HasOutOfBounds(P, E) == \E i \in 1..Len(E) : OutOfBounds(P, E[i])
HasDuplicate(E) == \E i \in 1..Len(E) : \E j \in 1..Len(E) : i < j /\ E[i] = E[j]

\* the first index of s whose element is not good given the ones before it
FirstOffending(s, Bad(_, _)) ==
    IF \E j \in 1..Len(s) : Bad(s, j)
    THEN CHOOSE j \in 1..Len(s) : Bad(s, j) /\ \A i \in 1..(j - 1) : ~Bad(s, i)
    ELSE 0

RepeatsEarlier(s, j) == \E i \in 1..(j - 1) : s[i] = s[j]

\* the procedure of section 4.2 of the specification, in its stated order
SpecValidate(P, E) ==
    LET BadPosition(s, j) == Negative(s[j]) \/ RepeatsEarlier(s, j)
        BadEdge(s, i) == OutOfBounds(P, s[i]) \/ RepeatsEarlier(s, i)
        j == FirstOffending(P, BadPosition)
        i == FirstOffending(E, BadEdge)
    IN  IF Len(P) = 0 \/ Len(E) = 0 THEN "GRAPH_EMPTY"
        ELSE IF j # 0
        THEN IF Negative(P[j]) THEN "INVALID_COORDINATE_SYSTEM"
             ELSE "VERTICES_HAVE_SAME_POSITION"
        ELSE IF i # 0
        THEN IF OutOfBounds(P, E[i]) THEN "EDGE_ENDPOINT_OUT_OF_BOUNDS"
             ELSE "DUPLICATE_EDGE_FOUND"
        ELSE "OK"

\* the kind that ranks highest among the defects of the input
HighestRanked(P, E) ==
    IF HasEmpty(P, E) THEN "GRAPH_EMPTY"
    ELSE IF HasSame(P) THEN "VERTICES_HAVE_SAME_POSITION"
    ELSE IF HasNegative(P) THEN "INVALID_COORDINATE_SYSTEM"
    ELSE IF HasOutOfBounds(P, E) THEN "EDGE_ENDPOINT_OUT_OF_BOUNDS"
    ELSE IF HasDuplicate(E) THEN "DUPLICATE_EDGE_FOUND"
    ELSE "OK"

\* the outcome of the validation of the last call
Reported == IF result.type = "ERROR" THEN result.reason ELSE "OK"

\* the edge list without the edges that reverse an earlier edge
DropReversed(E) ==
    LET kept == SelectSeq([i \in 1..Len(E) |-> i],
                          LAMBDA i : ~\E j \in 1..(i - 1) : E[j] = <<E[i][2], E[i][1]>>)
    IN  [k \in 1..Len(kept) |-> E[kept[k]]]

\* the graph of E has no cycle
Acyclic(E) == CycleRank(E) = 0

\* the non-empty cycles of the forest of the last call
Cycles == NonEmptyCycles(result.forest)

\* the last call returned a forest
ReturnedForest == Returned /\ result.type = "RESULT"

Closed(cycle) == cycle[1] = cycle[Len(cycle)]

Simple(cycle) ==
    /\ Closed(cycle)
    /\ \A i \in 1..(Len(cycle) - 1) : \A j \in 1..(Len(cycle) - 1) :
          i # j => cycle[i] # cycle[j]

\* the non-empty cycles of the trees two or more levels below the forest
DeepCycles(f) ==
    NonEmptyCycles([k \in 1..Len(f) |-> CycleTree(<<>>,
        [j \in 1..Len(f[k].children) |-> CycleTree(<<>>, f[k].children[j].children)])])

(***************************************************************************)
(* C1: for a valid input (distinct non-negative positions, unique ordered  *)
(* edges, no self-loops, straight edges meeting only at shared endpoints)  *)
(* the number of non-empty cycles of the returned forest, over all depths, *)
(* is m - n + c.                                                           *)
(***************************************************************************)
C1_CycleCount ==
    (ReturnedForest /\ ValidPlanar(positions, edges))
        => Len(Cycles) = CycleRank(edges)

\* a forest with three or more faces, some of them nested
C1_Witness ==
    /\ ReturnedForest /\ ValidPlanar(positions, edges)
    /\ CycleRank(edges) >= 3
    /\ Len(Cycles) = CycleRank(edges)
    /\ \E k \in 1..Len(result.forest) : Len(result.forest[k].children) > 0

(***************************************************************************)
(* C2: for a valid planar input every non-empty cycle of the returned      *)
(* forest is a walk in the input graph: consecutive names are joined by an *)
(* input edge, and the cycle has at least three distinct names.            *)
(***************************************************************************)
C2_CyclesAreWalks ==
    (ReturnedForest /\ ValidPlanar(positions, edges))
        => \A k \in 1..Len(Cycles) :
              /\ \A i \in 1..(Len(Cycles[k]) - 1) :
                    {Cycles[k][i], Cycles[k][i + 1]} \in UndirectedEdges(edges)
              /\ Cardinality(Range(Cycles[k])) >= 3

\* a face of four or more edges was returned
C2_Witness ==
    /\ ReturnedForest /\ ValidPlanar(positions, edges)
    /\ \E k \in 1..Len(Cycles) : Cardinality(Range(Cycles[k])) >= 4

(***************************************************************************)
(* C3, as stated: every non-empty cycle emitted by discover, at any depth, *)
(* is a simple cycle: no name occurs twice but the first, repeated once as *)
(* the last. An input that passes validation with edges that cross can     *)
(* give a cycle that passes twice through a name.                          *)
(***************************************************************************)
C3_Original ==
    ReturnedForest => \A k \in 1..Len(Cycles) : Simple(Cycles[k])

(***************************************************************************)
(* C3: for a valid planar input, every non-empty cycle emitted by          *)
(* discover, at any depth, is a simple cycle.                              *)
(***************************************************************************)
C3_SimpleCycles ==
    (ReturnedForest /\ ValidPlanar(positions, edges))
        => \A k \in 1..Len(Cycles) : Simple(Cycles[k])

\* two faces that touch in one vertex only: the closed walk met itself there
C3_Witness ==
    /\ ReturnedForest /\ ValidPlanar(positions, edges)
    /\ \E k \in 1..Len(Cycles) : \E j \in 1..Len(Cycles) :
          /\ k # j
          /\ Cardinality(Range(Cycles[k]) \cap Range(Cycles[j])) = 1
          /\ Simple(Cycles[k]) /\ Simple(Cycles[j])

(***************************************************************************)
(* C4: for every input that passes validation, every non-empty cycle of    *)
(* the returned forest, at any depth, is closed: first name = last name.   *)
(***************************************************************************)
C4_ClosedCycles ==
    ReturnedForest => \A k \in 1..Len(Cycles) : Closed(Cycles[k])

\* a closed cycle two levels below the forest
C4_Witness ==
    /\ ReturnedForest /\ ValidPlanar(positions, edges)
    /\ Len(DeepCycles(result.forest)) > 0
    /\ \A k \in 1..Len(DeepCycles(result.forest)) : Closed(DeepCycles(result.forest)[k])

(***************************************************************************)
(* C5: for a valid input whose graph has no cycle, discover returns a      *)
(* RESULT whose forest is the empty list. Violated by a call on an         *)
(* instance that has already processed a valid input: that call throws.    *)
(***************************************************************************)
C5_AcyclicGivesEmptyForest ==
    (Returned /\ ValidPlanar(positions, edges) /\ Acyclic(edges))
        => result = ForestResult(<<>>)

(***************************************************************************)
(* C6: for an input that passes validation and is a planar straight-line   *)
(* embedding without self-loops, discover terminates and returns a RESULT: *)
(* it neither loops forever nor throws. Violated by a call on an instance  *)
(* that has already processed a valid input.                               *)
(***************************************************************************)
C6_TerminatesWithResult ==
    (calls > 0 /\ ValidPlanar(positions, edges))
        => /\ phase # "hung"
           /\ phase = "idle" => result.type = "RESULT"

(***************************************************************************)
(* C7: the outcome of the validation of discover is the outcome of the     *)
(* procedure of section 4.2 of the specification run in its stated order.  *)
(***************************************************************************)
C7_ValidationProcedure ==
    calls > 0 => Reported = SpecValidate(positions, edges)

\* an out-of-bounds edge that is also a repetition of an earlier edge
C7_Witness ==
    /\ Returned
    /\ result = ErrorResult("EDGE_ENDPOINT_OUT_OF_BOUNDS")
    /\ HasDuplicate(edges)

(***************************************************************************)
(* C8, as stated: with defects of more than one kind, discover reports the *)
(* kind highest in GRAPH_EMPTY > VERTICES_HAVE_SAME_POSITION >             *)
(* INVALID_COORDINATE_SYSTEM > EDGE_ENDPOINT_OUT_OF_BOUNDS >               *)
(* DUPLICATE_EDGE_FOUND; two equal positions with a non-empty edge list    *)
(* give VERTICES_HAVE_SAME_POSITION.                                       *)
(***************************************************************************)
C8_Original ==
    calls > 0 => Reported = HighestRanked(positions, edges)

(***************************************************************************)
(* C8: GRAPH_EMPTY comes before every other kind, a defect of a position   *)
(* before every defect of an edge; among the positions, and among the      *)
(* edges, the kind reported is that of the earliest offending element.     *)
(***************************************************************************)
C8_Precedence ==
    LET P == positions
        E == edges
        cleanP == ~HasSame(P) /\ ~HasNegative(P)
    IN  calls > 0 =>
        /\ Reported = "GRAPH_EMPTY" <=> HasEmpty(P, E)
        /\ Reported = "VERTICES_HAVE_SAME_POSITION" <=>
              /\ ~HasEmpty(P, E)
              /\ \E j \in 1..Len(P) :
                    RepeatsEarlier(P, j) /\ \A i \in 1..j : ~Negative(P[i])
        /\ Reported = "INVALID_COORDINATE_SYSTEM" <=>
              /\ ~HasEmpty(P, E)
              /\ \E j \in 1..Len(P) :
                    Negative(P[j]) /\ \A i \in 1..(j - 1) : ~RepeatsEarlier(P, i)
        /\ Reported = "EDGE_ENDPOINT_OUT_OF_BOUNDS" <=>
              /\ ~HasEmpty(P, E) /\ cleanP
              /\ \E j \in 1..Len(E) :
                    OutOfBounds(P, E[j]) /\ \A i \in 1..(j - 1) : ~RepeatsEarlier(E, i)
        /\ Reported = "DUPLICATE_EDGE_FOUND" <=>
              /\ ~HasEmpty(P, E) /\ cleanP
              /\ \E j \in 1..Len(E) :
                    RepeatsEarlier(E, j) /\ \A i \in 1..j : ~OutOfBounds(P, E[i])

\* good positions and an out-of-bounds edge that comes after a repeated
\* edge, reported as a duplicate edge
C8_Witness ==
    /\ Returned
    /\ result = ErrorResult("DUPLICATE_EDGE_FOUND")
    /\ ~HasSame(positions) /\ ~HasNegative(positions)
    /\ \E j \in 1..Len(edges) :
          /\ OutOfBounds(positions, edges[j])
          /\ \E i \in 1..(j - 1) : RepeatsEarlier(edges, i)

(***************************************************************************)
(* C9: an edge list with both (a,b) and (b,a) is not rejected as a         *)
(* duplicate (only a repeated ordered pair gives DUPLICATE_EDGE_FOUND),    *)
(* and the forest returned is the forest returned when every later         *)
(* reversed copy is removed from the edge list.                            *)
(***************************************************************************)
C9_ReversedCopiesAbsorbed ==
    Returned =>
        /\ result = ErrorResult("DUPLICATE_EDGE_FOUND") => HasDuplicate(edges)
        /\ result.type = "RESULT" =>
              discover(storeBefore, positions, DropReversed(edges)).result = result

\* a forest with faces from an edge list that has reversed copies
C9_Witness ==
    /\ ReturnedForest
    /\ DropReversed(edges) # edges
    /\ Len(Cycles) > 0
    /\ discover(storeBefore, positions, DropReversed(edges)).result = result

(***************************************************************************)
(* C10: a validation failure is returned as a value of type ERROR, and     *)
(* the vertexStore of the instance is then what it was before the call.    *)
(***************************************************************************)
C10_ErrorLeavesStore ==
    (calls > 0 /\ validateInputs(positions, edges) # "OK")
        => /\ Returned
           /\ result.type = "ERROR"
           /\ vertexStore = storeBefore

\* an ERROR from an instance whose vertexStore holds earlier records
C10_Witness ==
    /\ Returned
    /\ result.type = "ERROR"
    /\ Len(storeBefore) > 0
    /\ vertexStore = storeBefore

\* the names that occur in the cycles of a tree, at every depth
TreeNames(tree) == UNION { Range(cycle) : cycle \in Range(CyclesOf(<<tree>>)) }

\* the connected components of the graph of E, as sets of names
Components(E) == { ReachFrom(E, {n}) : n \in NamesIn(E) }

\* the components that contain a cycle: as many edges as names, or more
CyclicComponents(E) ==
    { K \in Components(E) :
        Cardinality({ e \in UndirectedEdges(E) : e \subseteq K }) >= Cardinality(K) }

\* the position of a name lies strictly inside the bounding box of the names of S
StrictlyInBox(P, n, S) ==
    /\ \E a \in S : P[a + 1][1] < P[n + 1][1]
    /\ \E a \in S : P[a + 1][1] > P[n + 1][1]
    /\ \E a \in S : P[a + 1][2] < P[n + 1][2]
    /\ \E a \in S : P[a + 1][2] > P[n + 1][2]

(***************************************************************************)
(* C11: for a valid input the returned forest has exactly one tree for     *)
(* each connected component that contains a cycle and none for a component *)
(* without cycles; the names of one tree belong to one component, so faces *)
(* of different components are never nested in the forest.                 *)
(***************************************************************************)
C11_OneTreePerComponent ==
    (ReturnedForest /\ ValidPlanar(positions, edges))
        => LET F == result.forest
           IN  /\ Len(F) = Cardinality(CyclicComponents(edges))
               /\ \A k \in 1..Len(F) :
                     /\ TreeNames(F[k]) # {}
                     /\ \E K \in CyclicComponents(edges) : TreeNames(F[k]) \subseteq K
               /\ \A k \in 1..Len(F) : \A j \in 1..Len(F) :
                     k # j => ~\E K \in Components(edges) :
                                  (TreeNames(F[k]) \cup TreeNames(F[j])) \subseteq K

\* two components with faces, one of them inside the other, both top-level
C11_Witness ==
    /\ ReturnedForest /\ ValidPlanar(positions, edges)
    /\ Len(result.forest) = 2
    /\ Cardinality(CyclicComponents(edges)) = 2
    /\ \E k \in 1..2 : \E j \in 1..2 :
          /\ k # j
          /\ \A n \in TreeNames(result.forest[k]) :
                StrictlyInBox(positions, n, TreeNames(result.forest[j]))
          /\ Len(result.forest[j].children) = 0

\* the nodes of a forest, every depth, parents before children
RECURSIVE NodesOf(_)
NodesOf(f) ==
    IF Len(f) = 0 THEN <<>>
    ELSE <<f[1]>> \o NodesOf(f[1].children) \o NodesOf(Tail(f))

(***************************************************************************)
(* C12: no node of the forest returned by discover, at the top level or at *)
(* any depth of children, is an empty tree (empty cycle and no children).  *)
(***************************************************************************)
C12_NoEmptyNode ==
    ReturnedForest
        => \A k \in 1..Len(NodesOf(result.forest)) : ~isEmpty(NodesOf(result.forest)[k])

\* the nodes of the forest of the last call
Nodes == NodesOf(result.forest)

\* the names of the tree k of the forest form a component with one face
SingleFace(k) ==
    \E K \in Components(edges) :
        /\ TreeNames(result.forest[k]) \subseteq K
        /\ Cardinality({ e \in UndirectedEdges(edges) : e \subseteq K }) = Cardinality(K)

\* the faces a tree reports at its top: the node itself when it has a cycle,
\* and otherwise the faces its children report at their tops
RECURSIVE TopFacesFrom(_, _)
TopFacesFrom(children, j) ==
    IF j > Len(children) THEN 0
    ELSE (IF Len(children[j].cycle) > 0 THEN 1
          ELSE TopFacesFrom(children[j].children, 1))
         + TopFacesFrom(children, j + 1)

TopFaces(N) == TopFacesFrom(<<N>>, 1)

\* no cycle and exactly one child
Wrapper(N) == Len(N.cycle) = 0 /\ Len(N.children) = 1

\* extractBasis is about to return in the call in progress
BasisReturning == phase = "running" /\ CanBasisReturn(Current)

\* the trees pushed by the loop of extractBasis, one for each call of
\* extractCycleFromComponent: what the component or sub-problem yields
Yielded == Top(Current).children

\* the tree extractBasis hands to its caller: the last tree of the forest
\* of discover or the last child of the walk that detached the sub-problem
HandedOver ==
    LET after == BasisReturnStep(Current)
        pushed == IF Len(stack) = 1 THEN after.forest
                  ELSE Top(after).children
    IN  pushed[Len(pushed)]

\* the children of N that carry faces, and those that are not empty trees
FaceChildren(N) == { j \in 1..Len(N.children) : TopFaces(N.children[j]) >= 1 }
FilledChildren(N) == { j \in 1..Len(N.children) : ~isEmpty(N.children[j]) }

PositionOf(n) == positions[n + 1]

\* p lies on the segment from a to b
OnSegment(p, a, b) == Cross(a, b, p) = 0 /\ InBox(a, p, b)

\* the edge from a to b crosses the horizontal ray from p to the right
CrossesRay(p, a, b) ==
    /\ (a[2] > p[2]) # (b[2] > p[2])
    /\ IF b[2] > a[2]
       THEN (p[1] - a[1]) * (b[2] - a[2]) < (p[2] - a[2]) * (b[1] - a[1])
       ELSE (p[1] - a[1]) * (b[2] - a[2]) > (p[2] - a[2]) * (b[1] - a[1])

\* p lies inside or on the boundary of the polygon of a closed cycle of names
InsideOrOn(p, cycle) ==
    LET sides == 1..(Len(cycle) - 1)
        a(i) == PositionOf(cycle[i])
        b(i) == PositionOf(cycle[i + 1])
    IN  \/ \E i \in sides : OnSegment(p, a(i), b(i))
        \/ Cardinality({ i \in sides : CrossesRay(p, a(i), b(i)) }) % 2 = 1

\* every non-empty cycle below node N has all its vertices inside or on N's cycle
ContainsSubtree(N) ==
    \A k \in 1..Len(NonEmptyCycles(N.children)) :
        \A n \in Range(NonEmptyCycles(N.children)[k]) :
            InsideOrOn(PositionOf(n), N.cycle)

EdgesAvoiding(v) == SelectSeq(edges, LAMBDA edge : edge[1] # v /\ edge[2] # v)

\* the face G lies inside the face F and is joined to the rest of the graph
\* only through the vertex v of F: without v no path leads from G to F
HangsInside(F, G) ==
    /\ Range(G) # Range(F)
    /\ \E K \in Components(edges) : (Range(F) \cup Range(G)) \subseteq K
    /\ \A n \in Range(G) : InsideOrOn(PositionOf(n), F)
    /\ \E v \in Range(F) :
          \A g \in Range(G) \ {v} :
              ReachFrom(EdgesAvoiding(v), {g}) \cap Range(F) = {}

(***************************************************************************)
(* C15: within a component, a face G that lies inside a face F and is      *)
(* joined to the rest of the graph only through one vertex of F's          *)
(* boundary, directly or by a bridging path, is in the subtree of F's      *)
(* node, at every nesting depth.  Violated at depth two: the face inside   *)
(* a nested face is reported as a sibling of that face.                    *)
(***************************************************************************)
C15_NestedUnderEnclosingFace ==
    (ReturnedForest /\ ValidPlanar(positions, edges))
        => \A k \in 1..Len(Nodes) : \A j \in 1..Len(Cycles) :
              (Len(Nodes[k].cycle) > 0 /\ HangsInside(Nodes[k].cycle, Cycles[j]))
                  => Cycles[j] \in Range(NonEmptyCycles(Nodes[k].children))

\* the rotations of a closed cycle and of its reverse, without the closing name
Variants(cycle) ==
    LET n == Len(cycle) - 1
    IN  { [i \in 1..n |-> cycle[((i - 1 + r) % n) + 1]] : r \in 0..(n - 1) }
        \cup { [i \in 1..n |-> cycle[((n - i + r) % n) + 1]] : r \in 0..(n - 1) }

\* the multiset of the cycles of a forest, each up to rotation and direction:
\* the number of cycles in every class
CycleBag(f) ==
    LET list == NonEmptyCycles(f)
        classes == { Variants(list[i]) : i \in 1..Len(list) }
    IN  [x \in classes |-> Cardinality({ i \in 1..Len(list) : Variants(list[i]) = x })]

\* the edges of the last call in lexicographic order
SortedEdges == PairList(Range(edges))

UnusedNames == (0..(Len(positions) - 1)) \ NamesIn(edges)

\* the places an unused position can be moved to: non-negative and free
FreePlaces ==
    (Range(GridPoints) \cup { <<1, 1>>, <<3, 3>>, <<10, 5>> }) \ Range(positions)

(***************************************************************************)
(* C17: a position whose index appears in no edge is ignored: no vertex    *)
(* record is created for it, its name occurs in no cycle, and moving it to *)
(* any other valid position leaves the returned forest unchanged.          *)
(***************************************************************************)
C17_UnusedPositionIgnored ==
    /\ (calls > 0 /\ validateInputs(positions, edges) = "OK")
          => \A k \in (Len(storeBefore) + 1)..Len(vertexStore) :
                vertexStore[k].name \notin UnusedNames
    /\ ReturnedForest
          => /\ \A k \in 1..Len(Cycles) : Range(Cycles[k]) \cap UnusedNames = {}
             /\ \A u \in UnusedNames : \A q \in FreePlaces :
                   discover(storeBefore, [positions EXCEPT ![u + 1] = q], edges).result
                       = result

\* faces returned for an input with an unused position, which can be moved
\* into a face
C17_Witness ==
    /\ ReturnedForest
    /\ Len(Cycles) > 0
    /\ \E u \in UnusedNames : \E q \in FreePlaces :
          /\ q # positions[u + 1]
          /\ \E k \in 1..Len(Cycles) : InsideOrOn(q, Cycles[k])
          /\ discover(storeBefore, [positions EXCEPT ![u + 1] = q], edges).result = result

(***************************************************************************)
(* The area tree.                                                          *)
(***************************************************************************)
\* getAreaTree returned a tree
ReturnedTree == areaTree.type = "ROOT"

\* the pairs <<node, parent>> of the CHILD nodes below t
RECURSIVE NodesBelow(_)
NodesBelow(t) ==
    UNION { {<<t.children[k], t>>} \cup NodesBelow(t.children[k]) :
              k \in 1..Len(t.children) }

AreaNodes == NodesBelow(areaTree)

\* p lies inside or on the boundary of the polygon of a closed cycle of
\* names, whose positions are those passed to getAreaTree
Within(p, cycle) ==
    LET sides == 1..(Len(cycle) - 1)
        a(i) == areaNodes[cycle[i] + 1]
        b(i) == areaNodes[cycle[i + 1] + 1]
    IN  \/ \E i \in sides : OnSegment(p, a(i), b(i))
        \/ Cardinality({ i \in sides : CrossesRay(p, a(i), b(i)) }) % 2 = 1

\* every vertex of the polygon of node q lies inside or on the polygon of node R
EnclosedBy(q, R) ==
    \A k \in 1..(Len(q.polygon) - 1) : Within(areaNodes[q.polygon[k] + 1], R.polygon)

\* the nodes other than q whose polygon encloses the polygon of q
Enclosing(q) ==
    { R \in { pr[1] : pr \in AreaNodes } :
        R.polygonIndex # q.polygonIndex /\ EnclosedBy(q, R) }

(***************************************************************************)
(* C18: in the tree returned by getAreaTree a polygon q lies under a CHILD *)
(* node P only if every vertex of q is inside or on P's polygon, and then  *)
(* no polygon enclosing q has a smaller area than P; a polygon enclosed by *)
(* no other polygon (two triangles sharing an edge, say) is a direct       *)
(* child of ROOT.                                                          *)
(***************************************************************************)
C18_NestingIsContainment ==
    ReturnedTree =>
        \A pr \in AreaNodes :
            LET q == pr[1]
                P == pr[2]
            IN  /\ P.type = "CHILD" =>
                      /\ EnclosedBy(q, P)
                      /\ \A R \in Enclosing(q) : R.area.total >= P.area.total
                /\ Enclosing(q) = {} => P.type = "ROOT"

\* the sum of area.total over a list of nodes
RECURSIVE SumOfTotals(_)
SumOfTotals(children) ==
    IF Len(children) = 0 THEN 0
    ELSE children[1].area.total + SumOfTotals(Tail(children))

\* an area of n unit squares as the model holds it
Halves(n) == 2 * n

\* getAreaTree was called with the input
AreaCallOf(input) == areaNodes = input[1] /\ areaEdges = input[2]

(***************************************************************************)
(* C19: in every tree returned by getAreaTree, the withoutChildren of each *)
(* CHILD node is its total minus the sum of the totals of its direct       *)
(* children; the square of area 100 with the square of area 16 inside it   *)
(* reports 100 / 84, and the inner square 16 / 16.                         *)
(***************************************************************************)
C19_WithoutChildren ==
    ReturnedTree =>
        /\ \A pr \in AreaNodes :
              pr[1].area.withoutChildren
                  = pr[1].area.total - SumOfTotals(pr[1].children)
        /\ AreaCallOf(NestedSquares) =>
              /\ Len(areaTree.children) = 1
              /\ areaTree.children[1].area
                    = [total |-> Halves(100), withoutChildren |-> Halves(84)]
              /\ Len(areaTree.children[1].children) = 1
              /\ areaTree.children[1].children[1].area
                    = [total |-> Halves(16), withoutChildren |-> Halves(16)]

\* a returned tree with a node that has two children and a grandchild
C19_Witness ==
    /\ ReturnedTree
    /\ \E pr \in AreaNodes :
          /\ Len(pr[1].children) >= 2
          /\ \E k \in 1..Len(pr[1].children) : Len(pr[1].children[k].children) >= 1
          /\ pr[1].area.withoutChildren < pr[1].area.total

\* the forest that discover gives on a new instance for the input of the call
DiscoveredForest == discover(<<>>, areaNodes, areaEdges).result.forest

\* its non-empty cycles in pre-order
FlattenedCycles == NonEmptyCycles(DiscoveredForest)

\* twice the area of the polygon of a closed cycle of names (shoelace formula)
RECURSIVE ShoelaceFrom(_, _)
ShoelaceFrom(cycle, k) ==
    IF k >= Len(cycle) THEN 0
    ELSE LET a == areaNodes[cycle[k] + 1]
             b == areaNodes[cycle[k + 1] + 1]
         IN  a[1] * b[2] - b[1] * a[2] + ShoelaceFrom(cycle, k + 1)

TwiceArea(cycle) ==
    LET sum == ShoelaceFrom(cycle, 1) IN IF sum < 0 THEN 0 - sum ELSE sum

ChildNodes == { pr[1] : pr \in AreaNodes }

(***************************************************************************)
(* C20: the CHILD nodes of the tree returned by getAreaTree correspond one *)
(* to one to the non-empty cycles of the discovered forest flattened in    *)
(* pre-order: each such cycle is the polygon of exactly one node, the      *)
(* values of polygonIndex are pairwise distinct and number the polygons in *)
(* descending order of area (a smaller polygonIndex never has a smaller    *)
(* total), and every child has a larger polygonIndex than its parent and a *)
(* total not greater than its parent's.                                    *)
(***************************************************************************)
C20_NodesAreTheCycles ==
    ReturnedTree =>
        LET cycles == FlattenedCycles
            nodes == ChildNodes
        IN  /\ Cardinality(AreaNodes) = Len(cycles)
            /\ { N.polygonIndex : N \in nodes } = 0..(Len(cycles) - 1)
            /\ \A N \in nodes :
                  /\ Cardinality({ M \in nodes : M.polygon = N.polygon })
                        = Cardinality({ k \in 1..Len(cycles) : cycles[k] = N.polygon })
                  /\ N.area.total = TwiceArea(N.polygon)
            /\ \A k \in 1..Len(cycles) : \E N \in nodes : N.polygon = cycles[k]
            /\ \A N \in nodes : \A M \in nodes :
                  N.polygonIndex < M.polygonIndex => N.area.total >= M.area.total
            /\ \A pr \in AreaNodes :
                  pr[2].type = "CHILD" =>
                      /\ pr[1].polygonIndex > pr[2].polygonIndex
                      /\ pr[1].area.total <= pr[2].area.total

\* a returned tree of a forest that holds an empty cycle and a smaller
\* polygon before a larger one, with a node under a CHILD node
C20_Witness ==
    /\ ReturnedTree
    /\ LET found == DiscoveredForest
           cycles == NonEmptyCycles(found)
       IN  /\ Len(CyclesOf(found)) > Len(cycles)
           /\ \E i \in 1..Len(cycles) : \E j \in 1..Len(cycles) :
                 i < j /\ TwiceArea(cycles[i]) < TwiceArea(cycles[j])
    /\ \E pr \in AreaNodes : pr[2].type = "CHILD"

\* a call of getAreaTree returned (it did not throw)
TreeGiven == areaTree.type \in {"ROOT", "CHILD"}

\* discover, on an instance of its own, accepts the input of the call
AreaInputAccepted == validateInputs(areaNodes, areaEdges) = "OK"

(***************************************************************************)
(* C21 as stated: getAreaTree returns a ROOT node, except that a ROOT that *)
(* would carry exactly one child gives way to that CHILD node.             *)
(***************************************************************************)
C21_Original ==
    TreeGiven => (areaTree.type = "ROOT" => Len(areaTree.children) # 1)

(***************************************************************************)
(* C21: whenever getAreaTree returns it returns a ROOT node, also when the *)
(* ROOT carries exactly one child; every node below the ROOT is a CHILD.   *)
(***************************************************************************)
C21_AlwaysRoot ==
    TreeGiven =>
        /\ areaTree.type = "ROOT"
        /\ \A pr \in AreaNodes : pr[1].type = "CHILD"

\* a tree returned whose ROOT has exactly one child
C21_Witness ==
    /\ TreeGiven
    /\ areaTree.type = "ROOT"
    /\ Len(areaTree.children) = 1
    /\ AreaCallOf(NestedSquares)

\* getAreaTree was called
AreaCalled == areaTree # NoTree

ErrorCodes ==
    { "GRAPH_EMPTY", "INVALID_COORDINATE_SYSTEM", "VERTICES_HAVE_SAME_POSITION",
      "EDGE_ENDPOINT_OUT_OF_BOUNDS", "DUPLICATE_EDGE_FOUND" }

(***************************************************************************)
(* C22: when discover rejects the input, getAreaTree returns no tree: it   *)
(* raises an error whose message is the error code of discover, one of the *)
(* five codes; for a valid planar input it raises nothing and returns a    *)
(* tree.                                                                   *)
(***************************************************************************)
C22_ErrorSurfaced ==
    AreaCalled =>
        LET outcome == discover(<<>>, areaNodes, areaEdges).result
        IN  /\ outcome.type = "ERROR" =>
                  /\ areaTree.type = "THROW"
                  /\ areaTree.reason = outcome.reason
                  /\ areaTree.reason \in ErrorCodes
            /\ ValidPlanar(areaNodes, areaEdges) =>
                  /\ outcome.type = "RESULT"
                  /\ TreeGiven

\* a call with a list of edges that repeats an edge, which raised the error
C22_Witness ==
    /\ AreaCalled
    /\ areaTree.type = "THROW"
    /\ areaTree.reason = "DUPLICATE_EDGE_FOUND"
    /\ ~TreeGiven

(***************************************************************************)
(* The geometry.                                                           *)
(***************************************************************************)
AreaAsked == call.op = "getPolygonArea"

\* the shoelace sum x1 * y2 - x2 * y1 over the sides of the closed path,
\* twice the signed area
RECURSIVE ShoelaceSum(_, _)
ShoelaceSum(points, k) ==
    IF k > Len(points) THEN 0
    ELSE LET a == points[k]
             b == IF k < Len(points) THEN points[k + 1] ELSE points[1]
         IN  a[1] * b[2] - b[1] * a[2] + ShoelaceSum(points, k + 1)

Magnitude(n) == IF n < 0 THEN 0 - n ELSE n

Reversed(points) == [k \in 1..Len(points) |-> points[Len(points) + 1 - k]]

\* all the points lie on one line
Colinear(points) ==
    \A i \in 1..Len(points) : \A j \in 1..Len(points) : \A k \in 1..Len(points) :
        Cross(points[i], points[j], points[k]) = 0

\* the closed path is a simple polygon: its points differ and its sides meet
\* only where consecutive sides share their corner
SimplePolygon(points) ==
    /\ \A i \in 1..Len(points) : \A j \in 1..Len(points) :
          i # j => points[i] # points[j]
    /\ Planar(points, { {k - 1, k % Len(points)} : k \in 1..Len(points) })

(***************************************************************************)
(* C23 as stated: getPolygonArea returns a non-negative number for every   *)
(* closed point path, 0 if and only if the points are colinear, and for a  *)
(* path that is not colinear the magnitude of the shoelace area in either  *)
(* direction.  (The answer is held in halves.)                             *)
(***************************************************************************)
C23_Original ==
    AreaAsked =>
        /\ answer >= 0
        /\ answer = 0 <=> Colinear(call.points)
        /\ ~Colinear(call.points) =>
              /\ answer = Magnitude(ShoelaceSum(call.points, 1))
              /\ answer = Magnitude(ShoelaceSum(Reversed(call.points), 1))

(***************************************************************************)
(* C23: getPolygonArea returns the magnitude of the shoelace area of the   *)
(* path, the same in either direction, which is never negative; it is 0    *)
(* for colinear points and positive for every simple polygon, so 0 if and  *)
(* only if the points are colinear for every path whose sides do not       *)
(* cross or overlap.                                                       *)
(***************************************************************************)
C23_ShoelaceMagnitude ==
    AreaAsked =>
        /\ answer >= 0
        /\ answer = Magnitude(ShoelaceSum(call.points, 1))
        /\ answer = Magnitude(ShoelaceSum(Reversed(call.points), 1))
        /\ Colinear(call.points) => answer = 0
        /\ SimplePolygon(call.points) => answer > 0 /\ ~Colinear(call.points)

\* the area of a simple quadrilateral was asked
C23_Witness ==
    /\ AreaAsked
    /\ Len(call.points) = 4
    /\ SimplePolygon(call.points)
    /\ answer > 0

WindingAsked == call.op = "determineWindingOrder"

\* the corner at point k of the closed path: negative for a turn to the
\* right, positive for a turn to the left (y axis pointing up)
Turn(points, k) ==
    LET n == Len(points)
    IN  Cross(points[k], points[(k % n) + 1], points[((k + 1) % n) + 1])

\* a convex polygon traversed clockwise: every corner turns right
TurnsRight(points) ==
    SimplePolygon(points) /\ \A k \in 1..Len(points) : Turn(points, k) < 0

\* a convex polygon traversed counter-clockwise: every corner turns left
TurnsLeft(points) ==
    SimplePolygon(points) /\ \A k \in 1..Len(points) : Turn(points, k) > 0

Dual(order) ==
    CASE order = "CW" -> "CCW"
      [] order = "CCW" -> "CW"
      [] order = "CL" -> "CL"

(***************************************************************************)
(* C24: determineWindingOrder returns CW for a point sequence traversed    *)
(* clockwise with the y axis pointing up and CCW for one traversed         *)
(* counter-clockwise; reversing any sequence turns CW into CCW, CCW into   *)
(* CW and leaves COLINEAR as it is.                                        *)
(***************************************************************************)
C24_WindingOrder ==
    WindingAsked =>
        /\ determineWindingOrder(Reversed(call.points)) = Dual(answer)
        /\ TurnsRight(call.points) => answer = "CW"
        /\ TurnsLeft(call.points) => answer = "CCW"
        /\ SimplePolygon(call.points) =>
              /\ answer = "CW" <=> ShoelaceSum(call.points, 1) < 0
              /\ answer = "CCW" <=> ShoelaceSum(call.points, 1) > 0
        /\ call.points = <<<<0, 2>>, <<2, 2>>, <<2, 0>>, <<0, 0>>>> => answer = "CW"
        /\ call.points = <<<<0, 0>>, <<2, 0>>, <<2, 2>>, <<0, 2>>>> => answer = "CCW"

\* the order of a square traversed clockwise was asked
C24_Witness ==
    /\ WindingAsked
    /\ call.points = <<<<0, 2>>, <<2, 2>>, <<2, 0>>, <<0, 0>>>>
    /\ TurnsRight(call.points)
    /\ answer = "CW"

(***************************************************************************)
(* The graph during a discovery.                                           *)
(***************************************************************************)
\* v is in u's adjacency set if and only if u is in v's
Symmetric(store) ==
    \A u \in 1..Len(store) : \A i \in 1..Len(store[u].adjacent) :
        SetHas(store[store[u].adjacent[i]].adjacent, u)

\* the number of entries of the adjacency sets: two for every edge
RECURSIVE AdjEntriesFrom(_, _)
AdjEntriesFrom(store, k) ==
    IF k > Len(store) THEN 0
    ELSE Len(store[k].adjacent) + AdjEntriesFrom(store, k + 1)

AdjEntries(store) == AdjEntriesFrom(store, 1)

\* the records that are clones: those beyond the records of the names
Clones == { v \in 1..Len(vertexStore) : v > Len(storeBefore) + Len(UniqueNames(edges)) }

(***************************************************************************)
(* C25: in every state between the graph operations of a discovery         *)
(* (construction, filament pruning, wedge cloning with its transfer of     *)
(* edges, unwinding of a cycle) adjacency is symmetric, and no step of the *)
(* extraction adds an edge: the number of edges never increases after the  *)
(* construction.                                                           *)
(***************************************************************************)
C25_SymmetricAdjacency ==
    /\ [](Symmetric(vertexStore))
    /\ [][phase = "running" => AdjEntries(vertexStore') <= AdjEntries(vertexStore)]_vars

\* a discovery in progress in which a clone holds transferred edges
C25_Witness ==
    /\ phase = "running"
    /\ Symmetric(vertexStore)
    /\ \E v \in Clones : Len(vertexStore[v].adjacent) >= 2

\* the records reachable from the records of S through the adjacency sets
RECURSIVE ReachableRecords(_, _)
ReachableRecords(store, S) ==
    LET T == S \cup UNION { Range(store[v].adjacent) : v \in S }
    IN  IF T = S THEN S ELSE ReachableRecords(store, T)


\* the post-condition of removeFilaments for the component (a list of
\* records) in the vertexStore store
FilamentFree(store, component) ==
    \/ Len(component) = 0
    \/ LET K == ReachableRecords(store, Range(component))
       IN  /\ \A v \in K : AdjSize(store, v) >= 2
           /\ AdjEntriesFrom([k \in 1..Len(store) |->
                                 IF k \in K THEN store[k]
                                 ELSE [store[k] EXCEPT !.adjacent = <<>>]], 1)
                 >= 2 * Cardinality(K)

(***************************************************************************)
(* C26: after every call of removeFilaments during a discovery, at any     *)
(* depth of detachment, the component is empty, or every record left in    *)
(* it and every record reachable from it has at least 2 neighbours and the *)
(* component holds a cycle (as many edges as records, at least).           *)
(***************************************************************************)
C26_NoFilamentLeft ==
    [][RemoveFilaments =>
          FilamentFree(vertexStore', stack'[Len(stack')].component)]_vars

\* the list holds exactly the records reachable from its last record, each
\* once, in the post-order of a search: every record but the last is followed
\* by one of its neighbours, the record from which the search came to it
SearchedFrom(store, component, start) ==
    /\ Len(component) > 0
    /\ component[Len(component)] = start
    /\ Range(component) = ReachableRecords(store, {start})
    /\ Cardinality(Range(component)) = Len(component)
    /\ \A i \in 1..(Len(component) - 1) :
          \E j \in (i + 1)..Len(component) :
              SetHas(store[component[i]].adjacent, component[j])

(***************************************************************************)
(* C27: every depth-first search of a discovery returns a component that   *)
(* holds exactly the records reachable from its start record through the   *)
(* adjacency of the moment, each once, in post-order: the searches of      *)
(* discover that find the components, and the search from the clone in     *)
(* every wedge detachment, at any depth.                                   *)
(***************************************************************************)
C27_SearchFindsComponent ==
    [][/\ Discover =>
             \A k \in 1..Len(components') :
                 SearchedFrom(vertexStore', components'[k],
                              components'[k][Len(components'[k])])
       /\ ((Detach \/ Bridge) /\ Len(stack') > Len(stack)) =>
             SearchedFrom(vertexStore', stack'[Len(stack')].component,
                          Len(vertexStore'))]_vars

(***************************************************************************)
(* The selection of the next vertex of a walk.                             *)
(***************************************************************************)
\* the calls of the walkers that make the closed walk w
CallsOfWalk(store, w) ==
    { [op |-> "getClockwiseMost", store |-> store, vPrev |-> NullVertex, vCurr |-> w[1]] }
        \cup { [op |-> "getCounterClockwiseMost", store |-> store,
                vPrev |-> w[i], vCurr |-> w[i + 1]] : i \in 1..(Len(w) - 2) }

\* the calls of the walkers in a state: the call asked for on its own, or
\* the calls of the closed walk that extractCycleFromComponent is about to
\* make in a call of discover with a valid planar input
WalkerCalls ==
    IF call.op \in {"getClockwiseMost", "getCounterClockwiseMost"}
    THEN {call}
    ELSE IF CanExtractCycleFromComponent(Current) /\ ValidPlanar(positions, edges)
    THEN CallsOfWalk(vertexStore,
             ClosedWalk(vertexStore,
                        MinVertex(vertexStore, Top(Current).component)).walk)
    ELSE {}

\* what the call c returns when the adjacency set of vCurr is iterated in
\* the order adjacent
Returns(c, adjacent) ==
    LET store == [c.store EXCEPT ![c.vCurr].adjacent = adjacent]
    IN  IF c.op = "getClockwiseMost"
        THEN getClockwiseMost(store, c.vPrev, c.vCurr)
        ELSE getCounterClockwiseMost(store, c.vPrev, c.vCurr)

Returned28(c) == Returns(c, c.store[c.vCurr].adjacent)

\* the neighbours of vCurr other than vPrev
Candidates(c) == { v \in Range(c.store[c.vCurr].adjacent) : v # c.vPrev }

\* the directions d and e are the same
SameDirection(d, e) ==
    d[1] * e[2] - d[2] * e[1] = 0 /\ d[1] * e[1] + d[2] * e[2] > 0

\* the neighbours of vCurr, vPrev among them, lie in pairwise distinct directions
DistinctDirections(c) ==
    \A u \in Range(c.store[c.vCurr].adjacent) :
        \A v \in Range(c.store[c.vCurr].adjacent) :
            u # v => ~SameDirection(Direction(c.store, c.vCurr, u),
                                    Direction(c.store, c.vCurr, v))

\* the answer is the same for every iteration order of the adjacency set
OrderIndependent(c) ==
    \A adjacent \in Reorderings(c.store[c.vCurr].adjacent) :
        Returns(c, adjacent) = Returned28(c)

\* the turn from the incoming direction dCurr to d: 1 to the right
\* (clockwise, with the y axis upwards), 2 straight on, 3 to the left,
\* 4 straight back, the half turn that a clockwise choice takes last
Sector(dCurr, d) ==
    LET cross == dCurr[1] * d[2] - dCurr[2] * d[1]
        dot == dCurr[1] * d[1] + dCurr[2] * d[2]
    IN  IF cross < 0 THEN 1
        ELSE IF cross > 0 THEN 3
        ELSE IF dot > 0 THEN 2 ELSE 4

\* d turns further clockwise from dCurr than e does
MoreClockwise(dCurr, d, e) ==
    \/ Sector(dCurr, d) < Sector(dCurr, e)
    \/ /\ Sector(dCurr, d) = Sector(dCurr, e)
       /\ d[1] * e[2] - d[2] * e[1] > 0

\* the answer is the candidate that turns furthest clockwise, or furthest
\* counter-clockwise, from the incoming direction
Extreme(c) ==
    LET dCurr == IncomingDirection(c.store, c.vPrev, c.vCurr)
        dir(v) == Direction(c.store, c.vCurr, v)
        best == Returned28(c)
    IN  \A v \in Candidates(c) \ {best} :
            IF c.op = "getClockwiseMost"
            THEN MoreClockwise(dCurr, dir(best), dir(v))
            ELSE MoreClockwise(dCurr, dir(v), dir(best))

\* getClockwiseMost with <= where the reflex branch recomputes vCurrConvex
ClockwiseStepNonStrict(store, vPrev, vCurr, dCurr, best, vAdj) ==
    LET new == ClockwiseStep(store, vPrev, vCurr, dCurr, best, vAdj)
    IN  IF best.vNext # NullVertex /\ ~best.vCurrConvex /\ new.vNext # best.vNext
        THEN [new EXCEPT !.vCurrConvex =
                             (new.dNext[1] * dCurr[2] <= new.dNext[2] * dCurr[1])]
        ELSE new

RECURSIVE ClockwiseScanNonStrict(_, _, _, _, _)
ClockwiseScanNonStrict(store, vPrev, vCurr, dCurr, s) ==
    IF s.k > AdjSize(store, vCurr) THEN s.best
    ELSE ClockwiseScanNonStrict(store, vPrev, vCurr, dCurr,
             [best |-> ClockwiseStepNonStrict(store, vPrev, vCurr, dCurr, s.best,
                                              store[vCurr].adjacent[s.k]),
              k |-> s.k + 1])

getClockwiseMostNonStrict(store, vPrev, vCurr) ==
    ClockwiseScanNonStrict(store, vPrev, vCurr,
                           IncomingDirection(store, vPrev, vCurr),
                           [best |-> NoBest, k |-> 1]).vNext

\* a neighbour other than vPrev is returned whenever there is one
NeighbourReturned(c) ==
    IF Candidates(c) = {} THEN Returned28(c) = NullVertex
    ELSE Returned28(c) \in Candidates(c)

\* the comparison < of line 832 gives what <= gives
StrictAsNonStrict(c) ==
    c.op = "getClockwiseMost" =>
        getClockwiseMostNonStrict(c.store, c.vPrev, c.vCurr) = Returned28(c)

(***************************************************************************)
(* C28: in every call that discover makes of getClockwiseMost and of       *)
(* getCounterClockwiseMost the neighbour returned is the angularly extreme *)
(* one: it is a neighbour of vCurr other than vPrev whenever there is one; *)
(* for neighbours in pairwise distinct directions it is the neighbour that *)
(* turns furthest clockwise (counter-clockwise) from the incoming          *)
(* direction, which is (0,-1) when vPrev is null, and it is the same for   *)
(* every iteration order of the adjacency set of vCurr; and <= in place of *)
(* < in the reflex branch of getClockwiseMost never changes it.  Violated  *)
(* where a clone is searched for with stale marks (C27) and becomes the    *)
(* start of a walk with an edge straight up and an edge straight down.     *)
(***************************************************************************)
C28_ExtremeNeighbour ==
    \A c \in WalkerCalls :
        /\ NeighbourReturned(c)
        /\ StrictAsNonStrict(c)
        /\ DistinctDirections(c) => (OrderIndependent(c) /\ Extreme(c))

(***************************************************************************)
(* The calls made one after another on one instance.                       *)
(***************************************************************************)
\* the call just made, and every call before it, returned a RESULT or an ERROR
CompletedCall ==
    /\ phase = "idle"
    /\ calls > 0
    /\ result.type \in {"RESULT", "ERROR"}

\* no record of the store has a neighbour
AdjacencyEmptied(store) ==
    \A v \in 1..Len(store) : Len(store[v].adjacent) = 0

\* a further call with the input gives what a new instance gives
AsOnNewInstance(store, input) ==
    LET again == discover(store, input[1], input[2])
        new == discover(<<>>, input[1], input[2])
    IN  again.phase = new.phase /\ again.result = new.result

(***************************************************************************)
(* C29: what discover returns depends on its arguments only: after calls   *)
(* on one instance that each returned a RESULT or an ERROR, a further call *)
(* returns what the same call returns on a new instance, and every record  *)
(* that a completed call leaves in the vertexStore has an empty adjacency  *)
(* set. Violated by every call that follows a call with a non-empty valid  *)
(* input: the records of the earlier call are searched again.              *)
(***************************************************************************)
C29_ArgumentsOnly ==
    CompletedCall =>
        /\ AdjacencyEmptied(vertexStore)
        /\ \A input \in ReuseInputs : AsOnNewInstance(vertexStore, input)

(***************************************************************************)
(* C30: in every tree that getAreaTree returns for a valid planar input,   *)
(* the withoutChildren of each CHILD node is at least 0 and at most its    *)
(* total: the totals of the direct children of a node never sum to more    *)
(* than the total of the node. Violated where faces that lie beside a face *)
(* are attached below it (C18): their totals are subtracted all the same.  *)
(***************************************************************************)
C30_ChildrenWithinTotal ==
    (ReturnedTree /\ ValidPlanar(areaNodes, areaEdges)) =>
        \A pr \in AreaNodes :
            /\ pr[1].area.withoutChildren >= 0
            /\ pr[1].area.withoutChildren <= pr[1].area.total
            /\ SumOfTotals(pr[1].children) <= pr[1].area.total

====
